---- MODULE Spec2Model ----
(***************************************************************************)
(* Segment decision engine of auto_editor: the interval routines of the    *)
(* silence/VAD segmenter, the gaze filter, the disfluency detector, the    *)
(* retake resolver and the orchestration of process_project.               *)
(*                                                                         *)
(* Time is counted in integer ticks.  Thresholds that the source passes as *)
(* function parameters are inputs of the model and are drawn from small    *)
(* sets; there the tick is a power of two of a second, so that the doubles *)
(* of the code hold every time exactly and their arithmetic is that of the *)
(* integers.  Thresholds that the source hard-codes are program constants *)
(* and fix the tick: 0.05 s for the disfluency detectors and the merge    *)
(* tolerance of merge_intervals, one frame of 20 ms for vad_segments,     *)
(* 0.01 s for the repetition filter, the word trim and process_project.   *)
(* These ticks are not binary fractions: the code compares rounded sums   *)
(* and differences of doubles, and the model computes the same roundings. *)
(***************************************************************************)
EXTENDS Integers, Sequences, FiniteSets, TLC

VARIABLES
    \* build_segments_from_silences (modules/audio_silence_cuts.py)
    sil_pc, sil_duration, sil_silences, sil_par, sil_out,
    \* the interval-normalising routines, called on a caller-owned list
    nz_pc, nz_kind, nz_list, nz_par, nz_arg, nz_ret, nz_ret2,
    \* vad_segments (modules/audio_vad.py)
    vad_pc, vad_frames, vad_par, vad_i, vad_ring, vad_triggered, vad_start_t,
    vad_voiced, vad_out,
    \* refine_segments_by_gaze (modules/gaze_filter.py)
    gz_pc, gz_segments, gz_cfg, gz_idx, gz_t, gz_active_start, gz_last_keep_t,
    gz_buflen, gz_refined, gz_out,
    \* history of the kept frames: where the present run of kept frames began, the longest
    \* run of kept frames in the open sub-interval, and that length for each emitted one
    gz_run_start, gz_longest_run, gz_runs,
    \* build_punct_segments_from_words (auto_editor.py)
    pt_pc, pt_words, pt_par, pt_segments, pt_texts, pt_tokens,
    \* apply_repetition_filter (modules/audio_repetition_filter.py)
    rp_pc, rp_segments, rp_texts, rp_par, rp_drop, rp_kept_segments, rp_kept_texts,
    \* process_project (auto_editor.py)
    pp_pc, pp_log, pp_segments_src, pp_stt, pp_segments_concat, pp_texts,
    pp_segments_clean, pp_exception,
    \* trim_leading_word_repetition (modules/repetition_word_filter.py)
    tw_pc, tw_stt, tw_arg,
    \* detect_fillers, detect_restarts, detect_micro_repetition_cuts (modules/)
    df_pc, df_words, df_min_words, df_fn, df_ret

silVars == <<sil_pc, sil_duration, sil_silences, sil_par, sil_out>>
nzVars  == <<nz_pc, nz_kind, nz_list, nz_par, nz_arg, nz_ret, nz_ret2>>
vadVars == <<vad_pc, vad_frames, vad_par, vad_i, vad_ring, vad_triggered, vad_start_t,
             vad_voiced, vad_out>>
gzVars  == <<gz_pc, gz_segments, gz_cfg, gz_idx, gz_t, gz_active_start, gz_last_keep_t,
             gz_buflen, gz_refined, gz_out, gz_run_start, gz_longest_run, gz_runs>>
ptVars  == <<pt_pc, pt_words, pt_par, pt_segments, pt_texts, pt_tokens>>
rpVars  == <<rp_pc, rp_segments, rp_texts, rp_par, rp_drop, rp_kept_segments, rp_kept_texts>>
ppVars  == <<pp_pc, pp_log, pp_segments_src, pp_stt, pp_segments_concat, pp_texts,
             pp_segments_clean, pp_exception>>
twVars  == <<tw_pc, tw_stt, tw_arg>>
dfVars  == <<df_pc, df_words, df_min_words, df_fn, df_ret>>
vars    == <<silVars, nzVars, vadVars, gzVars, ptVars, rpVars, ppVars, twVars, dfVars>>

-----------------------------------------------------------------------------
(* Bounds of the model *)

\* longest track, in ticks
MaxDur == 6
\* most silences handed to build_segments_from_silences
MaxSil == 2
\* most intervals in a list handed to a normalising routine
MaxIvl == 3
\* largest time coordinate of such an interval
MaxT == 3
\* longest freely chosen sequence of frame decisions handed to vad_segments
MaxFrames == 12
\* latest end of a candidate segment handed to refine_segments_by_gaze
MaxGazeT == 5
\* most words in a transcript handed to build_punct_segments_from_words
MaxWords == 3
\* most transcript segments handed to apply_repetition_filter
MaxSegs == 3
\* most words in a transcript segment handed to trim_leading_word_repetition
MaxTrimWords == 3

-----------------------------------------------------------------------------
(* Python built-ins used by the interval code *)

Max(a, b) == IF a >= b THEN a ELSE b
Min(a, b) == IF a <= b THEN a ELSE b
Last(seq) == seq[Len(seq)]
Front(seq) == SubSeq(seq, 1, Len(seq) - 1)

\* tuple comparison (s1, e1) <= (s2, e2), as list.sort / sorted use it
TupleLeq(p, q) == p[1] < q[1] \/ (p[1] = q[1] /\ p[2] <= q[2])

RECURSIVE Insert(_, _)
Insert(p, seq) ==
    IF seq = <<>> THEN <<p>>
    ELSE IF TupleLeq(p, Head(seq)) THEN <<p>> \o seq
    ELSE <<Head(seq)>> \o Insert(p, Tail(seq))

\* sorted(list of tuples)
RECURSIVE sorted(_)
sorted(seq) == IF seq = <<>> THEN <<>> ELSE Insert(Head(seq), sorted(Tail(seq)))

-----------------------------------------------------------------------------
(* Binary floating point.  A time of n ticks, the tick being 1 / scale s, is   *)
(* the double nearest to n / scale.  A double v near n ticks is held as        *)
(* <<n, err>> with err = (scale * v - n) * 2^59, a whole number since the      *)
(* doubles from 2^-7 on are multiples of 2^-59.  The operators give the        *)
(* correctly rounded result of IEEE 754 (round to nearest, ties to even).     *)

\* 2^k * x modulo m
RECURSIVE Pow2Mod(_, _, _)
Pow2Mod(x, k, m) ==
    IF k = 0 THEN x % m
    ELSE IF k >= 10 THEN Pow2Mod((1024 * x) % m, k - 10, m)
    ELSE Pow2Mod((2 * x) % m, k - 1, m)

\* the spacing, in units of 2^-59, of the doubles at n / scale, or just below it
RECURSIVE UlpFrom(_, _, _, _)
UlpFrom(u, n, scale, below) ==
    IF 128 * n > 2 * u * scale \/ (128 * n = 2 * u * scale /\ ~below)
    THEN UlpFrom(2 * u, n, scale, below)
    ELSE u

\* the error of the double nearest to the exact value (n * 2^59 + err) / scale, n > 0
RoundErr(n, err, scale) ==
    LET u == UlpFrom(1, n, scale, err < 0)
        m == scale * u
        t == (Pow2Mod(n, 59, 2 * m) + (err % (2 * m))) % (2 * m)
        r == t % m
    IN IF 2 * r < m THEN err - r
       ELSE IF 2 * r > m THEN err + m - r
       ELSE IF t < m THEN err - r
       ELSE err + m - r

\* the double nearest to the exact value (n * 2^59 + err) / scale
Rounded(n, err, scale) ==
    IF n = 0 THEN <<0, err>>
    ELSE IF n > 0 THEN <<n, RoundErr(n, err, scale)>>
    ELSE <<n, 0 - RoundErr(0 - n, 0 - err, scale)>>

\* float(n / scale)
Float(n, scale) == Rounded(n, 0, scale)

\* x - y and x + y
FloatSub(x, y, scale) == Rounded(x[1] - y[1], x[2] - y[2], scale)
FloatAdd(x, y, scale) == Rounded(x[1] + y[1], x[2] + y[2], scale)

\* x < y and x <= y
FloatLess(x, y) == x[1] < y[1] \/ (x[1] = y[1] /\ x[2] < y[2])
FloatLeq(x, y) == x[1] < y[1] \/ (x[1] = y[1] /\ x[2] <= y[2])

-----------------------------------------------------------------------------
(* The merge loops *)

\* the tolerance 0.05 s of "s <= pe + 0.05", in ticks
MERGE_TOLERANCE == 1

\* The merge loop shared by every routine:
\*   for s, e in rest:  ps, pe = out[-1]
\*       if s - pe <= gap: out[-1] = (ps, max(pe, e))  else: out.append((s, e))
RECURSIVE MergeLoop(_, _, _)
MergeLoop(out, rest, gap) ==
    IF rest = <<>> THEN out
    ELSE LET p == Head(rest) IN
         IF out = <<>> THEN MergeLoop(<<p>>, Tail(rest), gap)
         ELSE LET q == Last(out) IN
              IF p[1] - q[2] <= gap
              THEN MergeLoop(Front(out) \o << <<q[1], Max(q[2], p[2])>> >>, Tail(rest), gap)
              ELSE MergeLoop(Append(out, p), Tail(rest), gap)

-----------------------------------------------------------------------------
(* modules/audio_silence_cuts.py : build_segments_from_silences *)

\* line 90: sorted((max(0.0, s), min(duration_s, e)) for s, e in silences if e > s)
RECURSIVE ClampSilences(_, _)
ClampSilences(silences, duration_s) ==
    IF silences = <<>> THEN <<>>
    ELSE LET s == Head(silences)[1]
             e == Head(silences)[2]
         IN (IF e > s THEN << <<Max(0, s), Min(duration_s, e)>> >> ELSE <<>>)
            \o ClampSilences(Tail(silences), duration_s)

\* lines 92-102: merge overlapping/adjacent silences (s <= pe)
MergeSilences(silences) == MergeLoop(<<>>, silences, 0)

\* lines 105-112: raw speech chunks are the gaps between the silences
RECURSIVE SpeechLoop(_, _, _)
SpeechLoop(silences, cur, speech) ==
    IF silences = <<>> THEN <<speech, cur>>
    ELSE LET s == Head(silences)[1]
             e == Head(silences)[2]
         IN SpeechLoop(Tail(silences), Max(cur, e),
                       IF s > cur THEN Append(speech, <<cur, s>>) ELSE speech)

SpeechChunks(silences, duration_s) ==
    LET r == SpeechLoop(silences, 0, <<>>)
    IN IF r[2] < duration_s THEN Append(r[1], <<r[2], duration_s>>) ELSE r[1]

\* a split at the silences under merge_gap_under_s only
JoinsSmallOnly(gap_s, par) == gap_s < par.merge_gap_under_s

\* lines 127-134: a silence under either threshold keeps the two chunks joined
Joins(gap_s, par) == gap_s < par.merge_gap_under_s \/ gap_s < par.cut_silence_over_s

\* a cut that keeps the whole silence on the side of the segment before it
CutEndWholeSilence(a_e, b_s, par) == b_s

\* line 138: cut_end = min(a_e + post_pad_s, b_s)
CutEnd(a_e, b_s, par) == Min(a_e + par.post_pad_s, b_s)

\* line 140: next_start = max(b_s - pre_pad_s, a_e)
NextStart(a_e, b_s, par) == Max(b_s - par.pre_pad_s, a_e)

\* lines 118-145: merge across short silences, split at long ones with pads
RECURSIVE SplitLoop(_, _, _, _, _, _)
SplitLoop(speech, i, seg_s, seg_e, segments, par) ==
    IF i > Len(speech) - 1 THEN Append(segments, <<seg_s, seg_e>>)
    ELSE LET a_e == speech[i][2]
             b_s == speech[i + 1][1]
             b_e == speech[i + 1][2]
             gap_s == b_s - a_e
         IN IF Joins(gap_s, par)
            THEN SplitLoop(speech, i + 1, seg_s, b_e, segments, par)
            ELSE SplitLoop(speech, i + 1, NextStart(a_e, b_s, par), b_e,
                           Append(segments, <<seg_s, CutEnd(a_e, b_s, par)>>), par)

CandidateSegments(speech, par) ==
    SplitLoop(speech, 1, speech[1][1], speech[1][2], <<>>, par)

\* lines 148-159: clamp + cleanup
RECURSIVE CleanLoop(_, _, _)
CleanLoop(segments, duration_s, par) ==
    IF segments = <<>> THEN <<>>
    ELSE LET s == Max(0, Min(duration_s, Head(segments)[1]))
             e == Max(0, Min(duration_s, Head(segments)[2]))
             d == e - s
             keep == ~(e <= s) /\ ~(d < par.drop_segment_under_s) /\ ~(d < par.min_segment_s)
         IN (IF keep THEN << <<s, e>> >> ELSE <<>>)
            \o CleanLoop(Tail(segments), duration_s, par)

\* the tail without the final merge: the cleaned segments, sorted
FinalSortOnly(cleaned) == sorted(cleaned)

\* the final merge with the tolerance of merge_intervals
FinalMergeTolerant(cleaned) == MergeLoop(<<>>, sorted(cleaned), MERGE_TOLERANCE)

\* lines 161-171: final merge if overlap due to pads
FinalMerge(cleaned) == MergeLoop(<<>>, sorted(cleaned), 0)

\* lines 147-173: the clamp / drop / merge tail of the function
SilenceTail(segments, duration_s, par) == FinalMerge(CleanLoop(segments, duration_s, par))

\* lines 90-112: the raw speech chunks of a track
RawSpeech(duration_s, silences) ==
    SpeechChunks(MergeSilences(sorted(ClampSilences(silences, duration_s))), duration_s)

build_segments_from_silences(duration_s, silences, par) ==
    IF duration_s <= 0 THEN <<>>
    ELSE LET merged == MergeSilences(sorted(ClampSilences(silences, duration_s)))
             speech == SpeechChunks(merged, duration_s)
         IN IF speech = <<>> THEN <<>>
            ELSE SilenceTail(CandidateSegments(speech, par), duration_s, par)

-----------------------------------------------------------------------------
(* Inputs of build_segments_from_silences *)

SilPar(cut, gap, pre, post, minseg, drop) ==
    [cut_silence_over_s |-> cut, merge_gap_under_s |-> gap, pre_pad_s |-> pre,
     post_pad_s |-> post, min_segment_s |-> minseg, drop_segment_under_s |-> drop]

\* threshold bundles: pads smaller than, equal to and larger than the cut threshold,
\* and minimum lengths that a padded segment next to a cut may miss
SilPars == { SilPar(2, 1, 0, 0, 1, 1), SilPar(2, 1, 1, 1, 2, 1),
             SilPar(3, 2, 1, 1, 2, 1), SilPar(2, 1, 2, 1, 2, 1),
             SilPar(2, 1, 1, 1, 3, 1), SilPar(2, 1, 2, 1, 3, 1) }

\* silences as the detector reports them, plus reversed, empty and off-track ones
SilPairs == { <<s, s + l>> : s \in 0 .. MaxDur - 1, l \in {1, 2, 3} }
            \cup { <<-1, 1>>, <<2, 2>>, <<3, 1>>, <<MaxDur, MaxDur + 2>>, <<MaxDur + 1, MaxDur + 2>> }

RECURSIVE SeqsUpTo(_, _)
SeqsUpTo(S, n) ==
    IF n = 0 THEN { <<>> }
    ELSE LET shorter == SeqsUpTo(S, n - 1)
         IN shorter \cup { Append(q, x) : q \in { r \in shorter : Len(r) = n - 1 }, x \in S }

SilInit ==
    /\ sil_pc = "ready"
    /\ sil_duration \in {0} \cup (MaxDur - 2 .. MaxDur)
    /\ sil_silences \in SeqsUpTo(SilPairs, MaxSil)
    /\ sil_par \in SilPars
    /\ sil_out = <<>>

SilIdle ==
    /\ sil_pc = "idle"
    /\ sil_duration = 0
    /\ sil_silences = <<>>
    /\ sil_par = SilPar(0, 0, 0, 0, 0, 0)
    /\ sil_out = <<>>

\* one call of build_segments_from_silences
BuildSegments ==
    /\ sil_pc = "ready"
    /\ sil_out' = build_segments_from_silences(sil_duration, sil_silences, sil_par)
    /\ sil_pc' = "done"
    /\ UNCHANGED <<sil_duration, sil_silences, sil_par, nzVars, vadVars, gzVars, ptVars, rpVars, ppVars, twVars, dfVars>>

-----------------------------------------------------------------------------
(* modules/filler_filter.py : merge_intervals *)

\* intervals.sort() sorts the caller's list in place
SortInPlace(intervals) == sorted(intervals)

\* the list handed back as it was given
ReturnUnmerged(intervals) == intervals

\* a time of n ticks of 0.05 s as the code holds it, and the difference of two
Secs(n) == Float(n, 20)
SecsApart(a, b) == FloatSub(Secs(a), Secs(b), 20)

\* line 91: s <= pe + 0.05
WithinTolerance(s, pe) ==
    FloatLeq(Secs(s), FloatAdd(Secs(pe), Secs(MERGE_TOLERANCE), 20))

\* lines 88-94
RECURSIVE MergeIntervalsLoop(_, _)
MergeIntervalsLoop(merged, rest) ==
    IF rest = <<>> THEN merged
    ELSE LET p == Head(rest)
             q == Last(merged)
         IN IF WithinTolerance(p[1], q[2])
            THEN MergeIntervalsLoop(Front(merged) \o << <<q[1], Max(q[2], p[2])>> >>, Tail(rest))
            ELSE MergeIntervalsLoop(Append(merged, p), Tail(rest))

\* lines 82-96
merge_intervals(intervals) ==
    IF intervals = <<>> THEN <<>>
    ELSE LET srt == SortInPlace(intervals)
         IN MergeIntervalsLoop(<<srt[1]>>, Tail(srt))

(* modules/gaze_filter.py : merge_close_segments *)

\* the loop with "ps, pe" read from the previous input element instead of out[-1]
RECURSIVE MergePrevInput(_, _, _, _)
MergePrevInput(out, prev, rest, gap) ==
    IF rest = <<>> THEN out
    ELSE LET p == Head(rest)
             q == Last(out)
         IN IF p[1] - prev[2] <= gap
            THEN MergePrevInput(Front(out) \o << <<q[1], Max(q[2], p[2])>> >>, p, Tail(rest), gap)
            ELSE MergePrevInput(Append(out, p), p, Tail(rest), gap)

merge_close_segments_prev(segs, gap) ==
    IF segs = <<>> THEN <<>> ELSE MergePrevInput(<<segs[1]>>, segs[1], Tail(segs), gap)

merge_close_segments(segs, gap) ==
    IF segs = <<>> THEN <<>> ELSE MergeLoop(<<segs[1]>>, Tail(segs), gap)

(* modules/audio_vad.py : vad_segments, post-process (lines 91-107) *)

\* frame_generator, lines 34-42, with frame_ms = 20: the timestamp of frame k is the
\* sum of k additions of 0.02 in binary floating point, and end_t = t + 0.02 (lines 82
\* and 88) is the timestamp of the next frame.  Differences of two such times are
\* compared with min_segment_ms / 1000.0 and merge_gap_ms / 1000.0; when the two sides
\* are the same number of frames the outcome is that of the rounded floats, tabulated
\* here for frames 0 .. 80.

\* the starts s for which (e - s) >= min_len is false although e - s is min_len frames
RoundsShort(min_len) ==
    CASE min_len = 0 -> {}
      [] min_len = 1 -> {2, 24, 49} \cup (7 .. 12)
      [] min_len = 2 -> {1, 23, 24, 48, 49} \cup (6 .. 11)
      [] min_len = 3 -> (6 .. 10) \cup (47 .. 49)
      [] min_len = 4 -> (5 .. 10) \cup (46 .. 49)
      [] min_len = 5 -> (4 .. 9) \cup (45 .. 49)
      [] min_len = 6 -> (4 .. 8)
      [] min_len = 7 -> (2 .. 8)
      [] min_len = 8 -> (2 .. 7)
      [] min_len = 9 -> (2 .. 5)
      [] min_len = 10 -> (0 .. 5)
      [] min_len = 11 -> (0 .. 4)
      [] min_len = 12 -> (0 .. 2)
      [] min_len = 13 -> {0, 1}
      [] min_len = 14 -> {0, 1}
      [] min_len = 15 -> {}
      [] min_len = 16 -> {}
      [] min_len = 17 -> {}
      [] min_len = 18 -> {}

\* the ends pe for which s - pe <= gap is false although s - pe is gap frames
RoundsApart(gap) ==
    CASE gap = 0 -> {}
      [] gap = 1 -> (3 .. 6) \cup (13 .. 23) \cup (25 .. 48) \cup (50 .. 79)
      [] gap = 2 -> (3 .. 5) \cup (12 .. 22) \cup (25 .. 47) \cup (50 .. 78)
      [] gap = 3 -> (2 .. 4) \cup (12 .. 21) \cup (25 .. 46) \cup (50 .. 77)
      [] gap = 4 -> {2, 3} \cup (11 .. 45) \cup (50 .. 76)
      [] gap = 5 -> (11 .. 44) \cup (50 .. 75)
      [] gap = 6 -> {0, 1} \cup (10 .. 43) \cup (50 .. 74)
      [] gap = 7 -> (10 .. 42) \cup (50 .. 73)
      [] gap = 8 -> (9 .. 72)
      [] gap = 9 -> (8 .. 71)
      [] gap = 10 -> (8 .. 70)

\* line 95: (e - s) >= min_len
LongEnough(s, e, min_len) ==
    e - s > min_len \/ (e - s = min_len /\ s \notin RoundsShort(min_len))

\* line 103: s - pe <= gap
WithinGap(pe, s, gap) ==
    s - pe < gap \/ (s - pe = gap /\ pe \notin RoundsApart(gap))

\* line 95: voiced = [(s, e) for s, e in voiced if (e - s) >= min_len]
RECURSIVE DropShort(_, _)
DropShort(voiced, min_len) ==
    IF voiced = <<>> THEN <<>>
    ELSE (IF LongEnough(Head(voiced)[1], Head(voiced)[2], min_len)
          THEN <<Head(voiced)>> ELSE <<>>)
         \o DropShort(Tail(voiced), min_len)

\* lines 99-105
RECURSIVE MergeVoiced(_, _, _)
MergeVoiced(merged, rest, gap) ==
    IF rest = <<>> THEN merged
    ELSE LET p == Head(rest)
             q == Last(merged)
         IN IF WithinGap(q[2], p[1], gap)
            THEN MergeVoiced(Front(merged) \o << <<q[1], Max(q[2], p[2])>> >>, Tail(rest), gap)
            ELSE MergeVoiced(Append(merged, p), Tail(rest), gap)

\* the post-process with the two steps exchanged: merge close, then remove short
VadPostProcessMergeFirst(voiced, min_len, gap) ==
    DropShort(IF voiced = <<>> THEN <<>> ELSE MergeVoiced(<<voiced[1]>>, Tail(voiced), gap),
              min_len)

\* lines 91-107
VadPostProcess(voiced, min_len, gap) ==
    LET kept == DropShort(voiced, min_len)
    IN IF kept = <<>> THEN <<>> ELSE MergeVoiced(<<kept[1]>>, Tail(kept), gap)

-----------------------------------------------------------------------------
(* The interval-normalising routines called on a list the caller owns.      *)
(* nz_list is the caller's list object, nz_arg its content when the call    *)
(* was made, nz_ret the returned list and nz_ret2 what the same routine     *)
(* returns when it is handed nz_ret.                                        *)

\* proper intervals, empty ones (e = s) and reversed ones (e = s - 1)
IvlPairs == { p \in (0 .. MaxT) \X (0 .. MaxT) : p[2] >= p[1] - 1 }

NzPar(gap, min_len, duration_s) == [gap |-> gap, min_len |-> min_len, duration_s |-> duration_s]

\* thresholds of the tail of build_segments_from_silences for one min length
TailPar(min_len) == SilPar(0, 0, 0, 0, min_len, 1)

NzInit ==
    /\ nz_pc = "ready"
    /\ nz_kind = "none"
    /\ nz_list \in SeqsUpTo(IvlPairs, MaxIvl)
    /\ nz_par = NzPar(0, 0, 0)
    /\ nz_arg = <<>>
    /\ nz_ret = <<>>
    /\ nz_ret2 = <<>>

NzIdle ==
    /\ nz_pc = "idle"
    /\ nz_kind = "none"
    /\ nz_list = <<>>
    /\ nz_par = NzPar(0, 0, 0)
    /\ nz_arg = <<>>
    /\ nz_ret = <<>>
    /\ nz_ret2 = <<>>

\* first call of a routine on the caller's list
NzFirst(kind, par, ret, list_after) ==
    /\ nz_pc = "ready"
    /\ nz_kind' = kind
    /\ nz_par' = par
    /\ nz_arg' = nz_list
    /\ nz_list' = list_after
    /\ nz_ret' = ret
    /\ nz_pc' = "called"
    /\ UNCHANGED <<nz_ret2, silVars, vadVars, gzVars, ptVars, rpVars, ppVars, twVars, dfVars>>

\* the same routine, same thresholds, handed its own result
NzAgain(kind, ret2) ==
    /\ nz_pc = "called"
    /\ nz_kind = kind
    /\ nz_ret2' = ret2
    /\ nz_pc' = "again"
    /\ UNCHANGED <<nz_kind, nz_par, nz_arg, nz_list, nz_ret, silVars, vadVars, gzVars, ptVars, rpVars, ppVars, twVars, dfVars>>

CallMergeIntervals ==
    \/ NzFirst("merge_intervals", NzPar(0, 0, 0), merge_intervals(nz_list),
               IF nz_list = <<>> THEN nz_list ELSE SortInPlace(nz_list))
    \/ NzAgain("merge_intervals", merge_intervals(nz_ret))

CallMergeCloseSegments ==
    \/ \E gap \in {0, 1} :
          NzFirst("merge_close_segments", NzPar(gap, 0, 0),
                  merge_close_segments(nz_list, gap), nz_list)
    \/ NzAgain("merge_close_segments", merge_close_segments(nz_ret, nz_par.gap))

CallVadPostProcess ==
    \/ \E gap \in {0, 1}, min_len \in {1, 2} :
          NzFirst("vad_post", NzPar(gap, min_len, 0),
                  VadPostProcess(nz_list, min_len, gap), nz_list)
    \/ NzAgain("vad_post", VadPostProcess(nz_ret, nz_par.min_len, nz_par.gap))

CallSilenceTail ==
    \/ \E min_len \in {1, 2}, d \in {MaxT - 1, MaxT} :
          NzFirst("silence_tail", NzPar(0, min_len, d),
                  SilenceTail(nz_list, d, TailPar(min_len)), nz_list)
    \/ NzAgain("silence_tail",
               SilenceTail(nz_ret, nz_par.duration_s, TailPar(nz_par.min_len)))

NzNext == CallMergeIntervals \/ CallMergeCloseSegments \/ CallVadPostProcess \/ CallSilenceTail

-----------------------------------------------------------------------------
(* modules/audio_vad.py : vad_segments.  One tick is one frame of 20 ms     *)
(* (frame_ms); frame k (from 0) has timestamp k.  vad_frames is the         *)
(* classifier's decision for each frame of the audio.                       *)

\* defaults of vad_segments: padding_ms / frame_ms = 300 / 20
DEFAULT_NUM_PADDING == 15
\* min_segment_ms / frame_ms = 350 / 20 = 17.5: the least whole number of frames
DEFAULT_MIN_LEN == 18
\* merge_gap_ms / frame_ms = 200 / 20
DEFAULT_GAP == 10

VadPar(num_padding, min_len, gap) == [num_padding |-> num_padding, min_len |-> min_len, gap |-> gap]

\* collections.deque(maxlen=num_padding).append
RingAppend(ring, x, maxlen) ==
    IF maxlen = 0 THEN <<>>
    ELSE IF Len(ring) < maxlen THEN Append(ring, x)
    ELSE Append(Tail(ring), x)

RECURSIVE CountSpeech(_, _)
CountSpeech(ring, flag) ==
    IF ring = <<>> THEN 0
    ELSE (IF Head(ring)[2] = flag THEN 1 ELSE 0) + CountSpeech(Tail(ring), flag)

\* line 74: num_voiced > 0.9 * ring.maxlen
StartTriggered(ring, maxlen) == 10 * CountSpeech(ring, TRUE) > 9 * maxlen

\* an end at the first unvoiced frame held in the window
EndTriggeredOnPause(ring, maxlen) == CountSpeech(ring, FALSE) >= 1

\* line 81: num_unvoiced > 0.9 * ring.maxlen
EndTriggered(ring, maxlen) == 10 * CountSpeech(ring, FALSE) > 9 * maxlen

\* line 76: start_t = ring[0][0]
SegmentStartNow(ring) == Last(ring)[1]
SegmentStart(ring) == ring[1][1]

\* lines 82 and 88: end_t = t + (frame_ms / 1000.0)
SegmentEndNoFrame(t) == t
SegmentEnd(t) == t + 1

\* runs of alternating decisions, first decision flag, lengths lens
RECURSIVE Runs(_, _)
Runs(flag, lens) ==
    IF lens = <<>> THEN <<>>
    ELSE [k \in 1 .. Head(lens) |-> flag] \o Runs(~flag, Tail(lens))

\* speech, a pause with one voiced frame near its end, speech again
VadFlicker == Runs(TRUE, <<10, 9, 1, 1, 10>>)

\* every sequence of decisions up to MaxFrames, with small windows, and
\* alternating runs, each longer than the window, with the default thresholds
VadInputs ==
    ( (UNION { [1 .. n -> BOOLEAN] : n \in 0 .. MaxFrames })
      \X { VadPar(2, 1, 0), VadPar(3, 4, 2), VadPar(3, 2, 1) } )
    \cup
    ( { Runs(f, <<a, b, c>>) : f \in BOOLEAN,
             a \in {DEFAULT_NUM_PADDING + 1, DEFAULT_NUM_PADDING + 4},
             b \in {DEFAULT_NUM_PADDING + 1, DEFAULT_NUM_PADDING + DEFAULT_GAP,
                    DEFAULT_NUM_PADDING + DEFAULT_GAP + 1},
             c \in {DEFAULT_NUM_PADDING + 1, DEFAULT_NUM_PADDING + 3} }
      \X { VadPar(DEFAULT_NUM_PADDING, DEFAULT_MIN_LEN, DEFAULT_GAP) } )
    \cup { <<VadFlicker, VadPar(11, 2, 1)>> }

VadInit ==
    /\ vad_pc = "loop"
    /\ \E inp \in VadInputs : vad_frames = inp[1] /\ vad_par = inp[2]
    /\ vad_i = 0
    /\ vad_ring = <<>>
    /\ vad_triggered = FALSE
    /\ vad_start_t = 0
    /\ vad_voiced = <<>>
    /\ vad_out = <<>>

VadIdle ==
    /\ vad_pc = "idle"
    /\ vad_frames = <<>>
    /\ vad_par = VadPar(0, 0, 0)
    /\ vad_i = 0
    /\ vad_ring = <<>>
    /\ vad_triggered = FALSE
    /\ vad_start_t = 0
    /\ vad_voiced = <<>>
    /\ vad_out = <<>>

\* lines 68-85: one iteration of "for t, frame in frames"
VadFrame ==
    /\ vad_pc = "loop"
    /\ vad_i < Len(vad_frames)
    /\ LET t == vad_i
           is_speech == vad_frames[vad_i + 1]
           ring == RingAppend(vad_ring, <<t, is_speech>>, vad_par.num_padding)
       IN IF ~vad_triggered
          THEN IF StartTriggered(ring, vad_par.num_padding)
               THEN /\ vad_triggered' = TRUE
                    /\ vad_start_t' = SegmentStart(ring)
                    /\ vad_ring' = <<>>
                    /\ UNCHANGED vad_voiced
               ELSE /\ vad_ring' = ring
                    /\ UNCHANGED <<vad_triggered, vad_start_t, vad_voiced>>
          ELSE IF EndTriggered(ring, vad_par.num_padding)
               THEN /\ vad_voiced' = Append(vad_voiced, <<vad_start_t, SegmentEnd(t)>>)
                    /\ vad_triggered' = FALSE
                    /\ vad_ring' = <<>>
                    /\ UNCHANGED vad_start_t
               ELSE /\ vad_ring' = ring
                    /\ UNCHANGED <<vad_triggered, vad_start_t, vad_voiced>>
    /\ vad_i' = vad_i + 1
    /\ UNCHANGED <<vad_pc, vad_frames, vad_par, vad_out, silVars, nzVars, gzVars, ptVars, rpVars, ppVars, twVars, dfVars>>

\* lines 58-59 and 87-107: the frames are exhausted: close the open segment,
\* remove short segments, merge close ones, return
VadReturn ==
    /\ vad_pc = "loop"
    /\ vad_i = Len(vad_frames)
    /\ LET closed == IF vad_triggered
                     THEN Append(vad_voiced, <<vad_start_t, SegmentEnd(Len(vad_frames) - 1)>>)
                     ELSE vad_voiced
       IN /\ vad_voiced' = closed
          /\ vad_out' = VadPostProcess(closed, vad_par.min_len, vad_par.gap)
    /\ vad_pc' = "done"
    /\ UNCHANGED <<vad_frames, vad_par, vad_i, vad_ring, vad_triggered, vad_start_t,
                   silVars, nzVars, gzVars, ptVars, rpVars, ppVars, twVars, dfVars>>

VadNext == VadFrame \/ VadReturn

-----------------------------------------------------------------------------
(* modules/gaze_filter.py : refine_segments_by_gaze.  One tick is one        *)
(* sampling period (step / fps).  The landmark model and the gaze numbers    *)
(* are outside the model: each sampled frame is one of                       *)
(*   "noface"  no face landmarks,        "nogaze"  _gaze_xy returns None,    *)
(*   "steady"  _is_reading_2d is False,  "reading" _is_reading_2d is True,   *)
(*   "raises"  _is_reading_2d raises an exception.                           *)
(* An optional value is <<>> for None and <<x>> for x.                       *)

NoneVal == <<>>
Some(x) == <<x>>
\* Python truth value of an optional float: None and 0.0 are false
Truthy(opt) == opt # NoneVal /\ opt[1] # 0

GazeCfg(gap, dur, merge, samples, win) ==
    [max_invalid_gap_s |-> gap, min_segment_duration_s |-> dur, merge_gap_s |-> merge,
     min_samples_in_window |-> samples, win_len |-> win]

GazeCfgs == { GazeCfg(1, 1, 1, 1, 2), GazeCfg(1, 2, 0, 2, 2), GazeCfg(2, 2, 2, 1, 1),
              GazeCfg(1, 0, 0, 1, 2) }

\* lines 148-170: _is_reading_2d is False until the window holds min_samples_in_window
\* samples (lines 149-150); the means of an empty window divide by zero (line 155);
\* a window of one sample is False on the dx_min or the angle test or reaches
\* statistics.variance (line 165), which raises for fewer than two data points
ReadingOutcomes(buflen, cfg) ==
    IF buflen < cfg.min_samples_in_window THEN {"False"}
    ELSE IF buflen = 0 THEN {"ZeroDivisionError"}
    ELSE IF buflen = 1 THEN {"False", "StatisticsError"}
    ELSE {"False", "True"}

\* lines 82-113: what a sampled frame can be, the window holding buflen samples before it
FrameKinds(buflen, cfg) ==
    LET outcomes == ReadingOutcomes(Min(buflen + 1, cfg.win_len), cfg)
    IN {"noface", "nogaze"}
       \cup (IF "False" \in outcomes THEN {"steady"} ELSE {})
       \cup (IF "True" \in outcomes THEN {"reading"} ELSE {})
       \cup (IF outcomes \ {"False", "True"} # {} THEN {"raises"} ELSE {})

\* candidate segments as the segmenter hands them over: sorted, disjoint, end > start
GazeSegs == { p \in (0 .. MaxGazeT) \X (0 .. MaxGazeT) : p[1] < p[2] }
GazeInputs ==
    { <<>> } \cup { <<p>> : p \in GazeSegs }
    \cup { pq \in { <<p, q>> : p \in GazeSegs, q \in GazeSegs } : pq[2][1] > pq[1][2] }

GazeInit ==
    /\ gz_pc = "start"
    /\ gz_segments \in GazeInputs
    /\ gz_cfg \in GazeCfgs
    /\ gz_idx = 0
    /\ gz_t = 0
    /\ gz_active_start = NoneVal
    /\ gz_last_keep_t = NoneVal
    /\ gz_buflen = 0
    /\ gz_refined = <<>>
    /\ gz_out = <<>>
    /\ gz_run_start = NoneVal
    /\ gz_longest_run = 0
    /\ gz_runs = <<>>

GazeIdle ==
    /\ gz_pc = "idle"
    /\ gz_segments = <<>>
    /\ gz_cfg = GazeCfg(0, 0, 0, 0, 0)
    /\ gz_idx = 0
    /\ gz_t = 0
    /\ gz_active_start = NoneVal
    /\ gz_last_keep_t = NoneVal
    /\ gz_buflen = 0
    /\ gz_refined = <<>>
    /\ gz_out = <<>>
    /\ gz_run_start = NoneVal
    /\ gz_longest_run = 0
    /\ gz_runs = <<>>

\* lines 64-71: the head of one iteration of "for seg_idx, (seg_start, seg_end)"
EnterSegment(idx) ==
    /\ gz_idx' = idx
    /\ gz_t' = gz_segments[idx][1]
    /\ gz_active_start' = NoneVal
    /\ gz_last_keep_t' = NoneVal
    /\ gz_buflen' = 0
    /\ gz_run_start' = NoneVal
    /\ gz_longest_run' = 0

\* lines 42-43 and 63
GazeBegin ==
    /\ gz_pc = "start"
    /\ IF gz_segments = <<>>
       THEN /\ gz_pc' = "done"
            /\ gz_out' = <<>>
            /\ UNCHANGED <<gz_idx, gz_t, gz_active_start, gz_last_keep_t, gz_buflen,
                           gz_run_start, gz_longest_run>>
       ELSE /\ gz_pc' = "while"
            /\ EnterSegment(1)
            /\ UNCHANGED gz_out
    /\ UNCHANGED <<gz_segments, gz_cfg, gz_refined, gz_runs, silVars, nzVars, vadVars, ptVars, rpVars, ppVars, twVars, dfVars>>

\* lines 118-119 and 127-128: the sub-interval is emitted when long enough
EmitAlways(active_start, last_keep_t, cfg) == << <<active_start, last_keep_t>> >>
Emit(active_start, last_keep_t, cfg) ==
    IF last_keep_t - active_start >= cfg.min_segment_duration_s
    THEN << <<active_start, last_keep_t>> >>
    ELSE <<>>

\* the length recorded for a sub-interval that Emit emits
EmitRun(active_start, last_keep_t, cfg, run) ==
    IF Emit(active_start, last_keep_t, cfg) = <<>> THEN <<>> ELSE <<run>>

\* history: a reading frame ends the run of kept frames; a kept frame begins or extends
\* it, and the longest run inside the open sub-interval is kept up to date
KeptRunHistory(kind, t) ==
    IF kind = "raises" THEN UNCHANGED <<gz_run_start, gz_longest_run, gz_runs>>
    ELSE IF kind = "reading"
    THEN /\ gz_run_start' = NoneVal
         /\ IF gz_active_start' = NoneVal /\ gz_active_start # NoneVal
            THEN /\ gz_longest_run' = 0
                 /\ gz_runs' = gz_runs \o EmitRun(gz_active_start[1], gz_last_keep_t[1],
                                                   gz_cfg, gz_longest_run)
            ELSE UNCHANGED <<gz_longest_run, gz_runs>>
    ELSE /\ gz_run_start' = IF gz_run_start = NoneVal THEN Some(t) ELSE gz_run_start
         /\ gz_longest_run' = IF gz_active_start' = NoneVal THEN 0
                              ELSE Max(gz_longest_run,
                                       t - Max(gz_run_start'[1], gz_active_start'[1]))
         /\ UNCHANGED gz_runs

\* a reading run that closes the sub-interval as soon as it is max_invalid_gap_s long
GapReached(t, last_keep_t, cfg) == t - last_keep_t >= cfg.max_invalid_gap_s

\* line 116: (t - last_keep_t) > cfg.max_invalid_gap_s
GapExceeded(t, last_keep_t, cfg) == t - last_keep_t > cfg.max_invalid_gap_s

\* lines 73-124: one iteration of "while t <= seg_end" whose frame was read
GazeSample(kind) ==
    /\ gz_pc = "while"
    /\ gz_t <= gz_segments[gz_idx][2]
    /\ kind \in FrameKinds(gz_buflen, gz_cfg)
    /\ LET t == gz_t + 1
       IN /\ gz_t' = t
          /\ CASE kind = "noface" ->
                    /\ gz_active_start' = IF gz_active_start = NoneVal THEN Some(t)
                                          ELSE gz_active_start
                    /\ gz_last_keep_t' = Some(t)
                    /\ UNCHANGED <<gz_buflen, gz_refined>>
               [] kind = "nogaze" ->
                    /\ gz_last_keep_t' = Some(t)
                    /\ UNCHANGED <<gz_active_start, gz_buflen, gz_refined>>
               [] kind = "reading" ->
                    /\ gz_buflen' = Min(gz_buflen + 1, gz_cfg.win_len)
                    /\ IF /\ Truthy(gz_active_start)
                          /\ Truthy(gz_last_keep_t)
                          /\ GapExceeded(t, gz_last_keep_t[1], gz_cfg)
                       THEN /\ gz_refined' = gz_refined
                                  \o Emit(gz_active_start[1], gz_last_keep_t[1], gz_cfg)
                            /\ gz_active_start' = NoneVal
                            /\ gz_last_keep_t' = NoneVal
                       ELSE UNCHANGED <<gz_active_start, gz_last_keep_t, gz_refined>>
               [] kind = "steady" ->
                    /\ gz_buflen' = Min(gz_buflen + 1, gz_cfg.win_len)
                    /\ gz_last_keep_t' = Some(t)
                    /\ gz_active_start' = IF gz_active_start = NoneVal THEN Some(t)
                                          ELSE gz_active_start
                    /\ UNCHANGED gz_refined
               \* line 108: the exception of _is_reading_2d leaves the function
               [] kind = "raises" ->
                    /\ gz_buflen' = Min(gz_buflen + 1, gz_cfg.win_len)
                    /\ UNCHANGED <<gz_active_start, gz_last_keep_t, gz_refined>>
    /\ gz_pc' = IF kind = "raises" THEN "raised" ELSE gz_pc
    /\ KeptRunHistory(kind, gz_t + 1)
    /\ UNCHANGED <<gz_segments, gz_cfg, gz_idx, gz_out, silVars, nzVars, vadVars, ptVars, rpVars, ppVars, twVars, dfVars>>

\* lines 126-128, then the next candidate, or lines 130-141 after the last one
LeaveSegment ==
    /\ LET refined == IF Truthy(gz_active_start) /\ Truthy(gz_last_keep_t)
                      THEN gz_refined \o Emit(gz_active_start[1], gz_last_keep_t[1], gz_cfg)
                      ELSE gz_refined
       IN /\ gz_refined' = refined
          /\ gz_runs' = IF Truthy(gz_active_start) /\ Truthy(gz_last_keep_t)
                        THEN gz_runs \o EmitRun(gz_active_start[1], gz_last_keep_t[1],
                                                gz_cfg, gz_longest_run)
                        ELSE gz_runs
          /\ IF gz_idx < Len(gz_segments)
             THEN /\ EnterSegment(gz_idx + 1)
                  /\ UNCHANGED <<gz_pc, gz_out>>
             ELSE /\ gz_pc' = "done"
                  /\ gz_out' = merge_close_segments(refined, gz_cfg.merge_gap_s)
                  /\ UNCHANGED <<gz_idx, gz_t, gz_active_start, gz_last_keep_t, gz_buflen,
                                 gz_run_start, gz_longest_run>>
    /\ UNCHANGED <<gz_segments, gz_cfg, silVars, nzVars, vadVars, ptVars, rpVars, ppVars, twVars, dfVars>>

\* line 73: the while condition fails
GazeSegmentEnd ==
    /\ gz_pc = "while"
    /\ ~(gz_t <= gz_segments[gz_idx][2])
    /\ LeaveSegment

\* lines 76-78: cap.read() fails (end of the video): break
GazeReadFails ==
    /\ gz_pc = "while"
    /\ gz_t <= gz_segments[gz_idx][2]
    /\ LeaveSegment

GazeNext ==
    \/ GazeBegin
    \/ \E kind \in {"noface", "nogaze", "steady", "reading", "raises"} : GazeSample(kind)
    \/ GazeSegmentEnd
    \/ GazeReadFails

-----------------------------------------------------------------------------
(* auto_editor.py : build_punct_segments_from_words.  A word is a record    *)
(* with the keys "start", "end" and "word"; a malformed word lacks a key.   *)
(* Tokens are strings.                                                      *)

CharAt(str, i) == SubSeq(str, i, i)

\* str.strip(), for the blank as the only whitespace
RECURSIVE Strip(_)
Strip(str) ==
    IF Len(str) = 0 THEN str
    ELSE IF CharAt(str, 1) = " " THEN Strip(SubSeq(str, 2, Len(str)))
    ELSE IF CharAt(str, Len(str)) = " " THEN Strip(SubSeq(str, 1, Len(str) - 1))
    ELSE str

\* lines 102-104
is_hard_punct(token) ==
    LET t == Strip(token) IN Len(t) > 0 /\ CharAt(t, Len(t)) \in {".", "!", "?"}

\* lines 106-108
is_soft_punct(token) ==
    LET t == Strip(token) IN Len(t) > 0 /\ CharAt(t, Len(t)) \in {",", ";", ":"}

\* " ".join(tokens)
RECURSIVE JoinBlank(_)
JoinBlank(tokens) ==
    IF tokens = <<>> THEN ""
    ELSE IF Len(tokens) = 1 THEN tokens[1]
    ELSE tokens[1] \o " " \o JoinBlank(Tail(tokens))

PunctPar(max_duration_s, min_duration_s, max_gap_s, allow_soft) ==
    [max_duration_s |-> max_duration_s, min_duration_s |-> min_duration_s,
     max_gap_s |-> max_gap_s, allow_soft_punct_split |-> allow_soft]

\* the loop state: the open segment (optional bounds, tokens) and the results
PunctState(seg_start, seg_end, seg_tokens, last_end, segments, texts, tokens) ==
    [seg_start |-> seg_start, seg_end |-> seg_end, seg_tokens |-> seg_tokens,
     last_end |-> last_end, segments |-> segments, texts |-> texts, tokens |-> tokens]

\* lines 132-141: flush without the minimum-duration test
flushAny(st, par) ==
    IF st.seg_start = NoneVal \/ st.seg_end = NoneVal
    THEN [st EXCEPT !.seg_start = NoneVal, !.seg_end = NoneVal, !.seg_tokens = <<>>]
    ELSE IF st.seg_tokens # <<>>
         THEN [st EXCEPT !.segments = Append(@, <<st.seg_start[1], st.seg_end[1]>>),
                         !.texts = Append(@, Strip(JoinBlank(st.seg_tokens))),
                         !.tokens = Append(@, st.seg_tokens),
                         !.seg_start = NoneVal, !.seg_end = NoneVal, !.seg_tokens = <<>>]
         ELSE [st EXCEPT !.seg_start = NoneVal, !.seg_end = NoneVal, !.seg_tokens = <<>>]

\* lines 132-141
flush(st, par) ==
    IF st.seg_start = NoneVal \/ st.seg_end = NoneVal
    THEN [st EXCEPT !.seg_start = NoneVal, !.seg_end = NoneVal, !.seg_tokens = <<>>]
    ELSE LET dur == st.seg_end[1] - st.seg_start[1]
         IN IF dur >= par.min_duration_s /\ st.seg_tokens # <<>>
            THEN [st EXCEPT !.segments = Append(@, <<st.seg_start[1], st.seg_end[1]>>),
                            !.texts = Append(@, Strip(JoinBlank(st.seg_tokens))),
                            !.tokens = Append(@, st.seg_tokens),
                            !.seg_start = NoneVal, !.seg_end = NoneVal, !.seg_tokens = <<>>]
            ELSE [st EXCEPT !.seg_start = NoneVal, !.seg_end = NoneVal, !.seg_tokens = <<>>]

WellFormed(w) == {"start", "end", "word"} \subseteq DOMAIN w

\* lines 143-184: one iteration of "for w in words"
PunctWord(st, w, par) ==
    IF ~WellFormed(w) THEN st
    ELSE LET ws == w.start
             we == w.end
             tok == w.word
             open == [st EXCEPT !.seg_start = Some(ws), !.seg_end = Some(we),
                                !.seg_tokens = <<tok>>, !.last_end = Some(we)]
         IN IF st.seg_start = NoneVal THEN open
            ELSE IF st.last_end # NoneVal /\ ws - st.last_end[1] > par.max_gap_s
            THEN LET closed == flush(st, par)
                 IN [closed EXCEPT !.seg_start = Some(ws), !.seg_end = Some(we),
                                   !.seg_tokens = <<tok>>, !.last_end = Some(we)]
            ELSE LET seg_end == Max(st.seg_end[1], we)
                     grown == [st EXCEPT !.seg_tokens = Append(@, tok),
                                         !.seg_end = Some(seg_end),
                                         !.last_end = Some(we)]
                     dur == seg_end - st.seg_start[1]
                     hard == is_hard_punct(tok)
                     soft == par.allow_soft_punct_split /\ is_soft_punct(tok)
                 IN IF hard THEN flush(grown, par)
                    \* dur >= 0.65 * max_duration_s
                    ELSE IF soft /\ 100 * dur >= 65 * par.max_duration_s THEN flush(grown, par)
                    ELSE IF dur >= par.max_duration_s THEN flush(grown, par)
                    ELSE grown

RECURSIVE PunctLoop(_, _, _)
PunctLoop(st, words, par) ==
    IF words = <<>> THEN st
    ELSE PunctLoop(PunctWord(st, Head(words), par), Tail(words), par)

\* lines 110-187
build_punct_segments_from_words(words, par) ==
    IF words = <<>> THEN PunctState(NoneVal, NoneVal, <<>>, NoneVal, <<>>, <<>>, <<>>)
    ELSE flush(PunctLoop(PunctState(NoneVal, NoneVal, <<>>, NoneVal, <<>>, <<>>, <<>>),
                         words, par), par)

\* transcripts: time-ordered words, each after a gap g from the previous end and
\* d long, and words that lack the "end" key
PunctTokens == {"on", " va.", "ok,"}

RECURSIVE Transcripts(_, _)
Transcripts(n, from) ==
    IF n = 0 THEN { <<>> }
    ELSE { <<>> }
         \cup UNION { { <<[start |-> from + g, end |-> from + g + d, word |-> tok]>> \o rest :
                            rest \in Transcripts(n - 1, from + g + d) } :
                        g \in {0, 2}, d \in {0, 1}, tok \in PunctTokens }
         \cup { <<[start |-> from, word |-> "on"]>> \o rest : rest \in Transcripts(n - 1, from) }

PunctPars == { PunctPar(3, 1, 1, TRUE), PunctPar(2, 2, 1, TRUE), PunctPar(3, 1, 2, FALSE),
               PunctPar(3, 0, 1, TRUE) }

PunctInit ==
    /\ pt_pc = "ready"
    /\ pt_words \in Transcripts(MaxWords, 0)
    /\ pt_par \in PunctPars
    /\ pt_segments = <<>>
    /\ pt_texts = <<>>
    /\ pt_tokens = <<>>

PunctIdle ==
    /\ pt_pc = "idle"
    /\ pt_words = <<>>
    /\ pt_par = PunctPar(0, 0, 0, FALSE)
    /\ pt_segments = <<>>
    /\ pt_texts = <<>>
    /\ pt_tokens = <<>>

\* one call of build_punct_segments_from_words
BuildPunctSegments ==
    /\ pt_pc = "ready"
    /\ LET r == build_punct_segments_from_words(pt_words, pt_par)
       IN /\ pt_segments' = r.segments
          /\ pt_texts' = r.texts
          /\ pt_tokens' = r.tokens
    /\ pt_pc' = "done"
    /\ UNCHANGED <<pt_words, pt_par, silVars, nzVars, vadVars, gzVars, rpVars, ppVars, twVars, dfVars>>

PunctNext == BuildPunctSegments

-----------------------------------------------------------------------------
(* modules/audio_repetition_filter.py.  Texts are strings over ASCII        *)
(* letters, digits, blank and punctuation, so _strip_accents leaves them as *)
(* they are.  Durations are in ticks of 0.01 s.                             *)

UpperLetters == "ABCDEFGHIJKLMNOPQRSTUVWXYZ"
LowerLetters == "abcdefghijklmnopqrstuvwxyz"
OtherWordChars == "0123456789_"

IndexIn(c, alphabet) ==
    IF \E i \in 1 .. Len(alphabet) : CharAt(alphabet, i) = c
    THEN CHOOSE i \in 1 .. Len(alphabet) : CharAt(alphabet, i) = c
    ELSE 0

\* str.lower(), one character
LowerChar(c) ==
    LET i == IndexIn(c, UpperLetters) IN IF i = 0 THEN c ELSE CharAt(LowerLetters, i)

\* \w
IsWordChar(c) ==
    IndexIn(c, LowerLetters) # 0 \/ IndexIn(c, UpperLetters) # 0 \/ IndexIn(c, OtherWordChars) # 0

\* lines 31-33: s.lower(), then _PUNCT_RE.sub(" ", s): what is neither \w nor \s is a blank
RECURSIVE LowerNoPunct(_)
LowerNoPunct(str) ==
    IF Len(str) = 0 THEN ""
    ELSE LET c == LowerChar(CharAt(str, 1))
         IN (IF IsWordChar(c) \/ c = " " THEN c ELSE " ") \o LowerNoPunct(SubSeq(str, 2, Len(str)))

\* the pieces of str between single blanks (str.split(" ")); two blanks in a row
\* give an empty piece
RECURSIVE SplitBlank(_, _)
SplitBlank(str, cur) ==
    IF Len(str) = 0 THEN <<cur>>
    ELSE IF CharAt(str, 1) = " " THEN <<cur>> \o SplitBlank(SubSeq(str, 2, Len(str)), "")
    ELSE SplitBlank(SubSeq(str, 2, Len(str)), cur \o CharAt(str, 1))

\* line 12: _FILLERS
FillerWords == {"euh", "heu", "bah", "ben", "genre", "quoi", "ok", "okay", "donc", "alors"}
FillerPairs == { <<"du", "coup">>, <<"en", "fait">> }

\* lines 36-37: re.sub(rf"\b{f}\b", " ", s) for every filler, on the pieces
RECURSIVE RemoveFillers(_)
RemoveFillers(pieces) ==
    IF pieces = <<>> THEN <<>>
    ELSE IF Len(pieces) >= 2 /\ <<pieces[1], pieces[2]>> \in FillerPairs
    THEN RemoveFillers(Tail(Tail(pieces)))
    ELSE IF pieces[1] \in FillerWords THEN RemoveFillers(Tail(pieces))
    ELSE <<pieces[1]>> \o RemoveFillers(Tail(pieces))

RECURSIVE NonEmpty(_)
NonEmpty(pieces) ==
    IF pieces = <<>> THEN <<>>
    ELSE (IF pieces[1] = "" THEN <<>> ELSE <<pieces[1]>>) \o NonEmpty(Tail(pieces))

\* lines 28-40
normalize_text(str) ==
    IF Len(str) = 0 THEN ""
    ELSE JoinBlank(NonEmpty(RemoveFillers(SplitBlank(LowerNoPunct(str), ""))))

\* text.split()
Words(text) == NonEmpty(SplitBlank(text, ""))

\* lines 43-44
token_set(text) == { w \in { Words(text)[k] : k \in 1 .. Len(Words(text)) } : Len(w) > 2 }

\* 1.0 s of line 49, in ticks of 0.01 s
ONE_SECOND == 100

RECURSIVE CountLong(_)
CountLong(ws) ==
    IF ws = <<>> THEN 0 ELSE (IF Len(ws[1]) > 2 THEN 1 ELSE 0) + CountLong(Tail(ws))

\* a segment taken as trivial only when it is short and has few words as well
ShortAndFewWords(text, dur_s) ==
    FloatLess(dur_s, Float(ONE_SECOND, ONE_SECOND)) /\ CountLong(Words(text)) < 4

\* lines 47-49: dur_s < 1.0 or len(words) < 4
is_trivial_segment(text, dur_s) ==
    FloatLess(dur_s, Float(ONE_SECOND, ONE_SECOND)) \/ CountLong(Words(text)) < 4

(* difflib.SequenceMatcher(None, a, b).ratio(), for strings under 200 characters *)

\* length of the common run of a from i and b from j, within a[..ahi], b[..bhi]
RECURSIVE RunLen(_, _, _, _, _, _)
RunLen(a, b, i, j, ahi, bhi) ==
    IF i > ahi \/ j > bhi THEN 0
    ELSE IF CharAt(a, i) # CharAt(b, j) THEN 0
    ELSE 1 + RunLen(a, b, i + 1, j + 1, ahi, bhi)

\* find_longest_match: the longest block, the earliest in a, then the earliest in b
LongestMatch(a, b, alo, ahi, blo, bhi) ==
    LET cand == { <<i, j, RunLen(a, b, i, j, ahi, bhi)>> : i \in alo .. ahi, j \in blo .. bhi }
        best == CHOOSE c \in cand :
                    \A d \in cand :
                        \/ c[3] > d[3]
                        \/ c[3] = d[3] /\ c[1] < d[1]
                        \/ c[3] = d[3] /\ c[1] = d[1] /\ c[2] <= d[2]
    IN best

\* get_matching_blocks: the number of matched characters
RECURSIVE MatchCount(_, _, _, _, _, _)
MatchCount(a, b, alo, ahi, blo, bhi) ==
    IF alo > ahi \/ blo > bhi THEN 0
    ELSE LET m == LongestMatch(a, b, alo, ahi, blo, bhi)
         IN IF m[3] = 0 THEN 0
            ELSE m[3] + MatchCount(a, b, alo, m[1] - 1, blo, m[2] - 1)
                      + MatchCount(a, b, m[1] + m[3], ahi, m[2] + m[3], bhi)

\* similarity(a, b) >= pct / 100, with ratio = 2.0 * matches / length, 1.0 for no length
SimilarityAtLeast(a, b, pct) ==
    LET length == Len(a) + Len(b)
    IN IF length = 0 THEN 100 >= pct
       ELSE 200 * MatchCount(a, b, 1, Len(a), 1, Len(b)) >= pct * length

RepPar(lookback, min_sim, min_keep_s) ==
    [lookback |-> lookback, min_sim |-> min_sim, min_keep_s |-> min_keep_s]

\* lines 112-114, 145-146 and 170-173: the float e - s of a segment whose bounds are
\* the doubles nearest to whole ticks of 0.01 s
Duration(seg) == FloatSub(Float(seg[2], ONE_SECOND), Float(seg[1], ONE_SECOND), ONE_SECOND)

\* lines 177, 180 and 184: dur >= min_keep_s
ReachesMinKeep(dur, min_keep_s) == ~FloatLess(dur, Float(min_keep_s, ONE_SECOND))

\* lines 101-116: the containment rule; it drops i without asking min_keep_s
Contained(i, segments, norm_texts, par) ==
    /\ i + 1 <= Len(segments)
    /\ LET ta == token_set(norm_texts[i])
           tb == token_set(norm_texts[i + 1])
       IN /\ ta # {}
          /\ tb # {}
          /\ 10 * Cardinality(ta \cap tb) >= 6 * Cardinality(ta)
          /\ FloatLess(Duration(segments[i]), Duration(segments[i + 1]))

\* a lookback that on equal durations drops the later segment of the pair
RECURSIVE LookbackDropsLater(_, _, _, _, _, _)
LookbackDropsLater(i, j, drop, segments, norm_texts, par) ==
    IF j >= i THEN drop
    ELSE IF j \in drop THEN LookbackDropsLater(i, j + 1, drop, segments, norm_texts, par)
    ELSE IF norm_texts[j] = "" THEN LookbackDropsLater(i, j + 1, drop, segments, norm_texts, par)
    ELSE IF ~SimilarityAtLeast(norm_texts[i], norm_texts[j], par.min_sim)
    THEN LookbackDropsLater(i, j + 1, drop, segments, norm_texts, par)
    ELSE LET dur_i == Duration(segments[i])
             dur_j == Duration(segments[j])
         IN IF FloatLeq(dur_i, dur_j)
            THEN (IF ReachesMinKeep(dur_j, par.min_keep_s) THEN drop \cup {i} ELSE drop)
            ELSE (IF ReachesMinKeep(dur_i, par.min_keep_s) THEN drop \cup {j} ELSE drop)

\* lines 158-187: the windowed lookback for segment i, from candidate j on
RECURSIVE Lookback(_, _, _, _, _, _)
Lookback(i, j, drop, segments, norm_texts, par) ==
    IF j >= i THEN drop
    ELSE IF j \in drop THEN Lookback(i, j + 1, drop, segments, norm_texts, par)
    ELSE IF norm_texts[j] = "" THEN Lookback(i, j + 1, drop, segments, norm_texts, par)
    ELSE IF ~SimilarityAtLeast(norm_texts[i], norm_texts[j], par.min_sim)
    THEN Lookback(i, j + 1, drop, segments, norm_texts, par)
    ELSE LET dur_i == Duration(segments[i])
             dur_j == Duration(segments[j])
         IN IF FloatLess(dur_i, dur_j)
            THEN (IF ReachesMinKeep(dur_j, par.min_keep_s) THEN drop \cup {i} ELSE drop)
            ELSE IF FloatLess(dur_j, dur_i)
            THEN (IF ReachesMinKeep(dur_i, par.min_keep_s) THEN drop \cup {j} ELSE drop)
            ELSE (IF ReachesMinKeep(dur_i, par.min_keep_s) THEN drop \cup {j} ELSE drop)

\* an iteration in which a segment dropped by the containment rule still runs
\* its windowed lookback
RepetitionStepGoesOn(i, drop, segments, norm_texts, par) ==
    IF Contained(i, segments, norm_texts, par)
    THEN Lookback(i, Max(1, i - par.lookback), drop \cup {i}, segments, norm_texts, par)
    ELSE IF i \in drop THEN drop
    ELSE IF norm_texts[i] = "" THEN drop
    ELSE IF /\ i > 1
            /\ ~SimilarityAtLeast(norm_texts[i], norm_texts[i - 1], par.min_sim)
            /\ i >= 3
            /\ SimilarityAtLeast(norm_texts[i], norm_texts[i - 2], par.min_sim)
    THEN (IF is_trivial_segment(norm_texts[i - 1], Duration(segments[i - 1]))
          THEN drop \cup {i} ELSE drop)
    ELSE Lookback(i, Max(1, i - par.lookback), drop, segments, norm_texts, par)

\* lines 94-187: one iteration of "for i in range(n)" (i counts from 1)
RepetitionStep(i, drop, segments, norm_texts, par) ==
    IF Contained(i, segments, norm_texts, par) THEN drop \cup {i}
    ELSE IF i \in drop THEN drop
    ELSE IF norm_texts[i] = "" THEN drop
    ELSE IF /\ i > 1
            /\ ~SimilarityAtLeast(norm_texts[i], norm_texts[i - 1], par.min_sim)
            /\ i >= 3
            /\ SimilarityAtLeast(norm_texts[i], norm_texts[i - 2], par.min_sim)
    THEN (IF is_trivial_segment(norm_texts[i - 1], Duration(segments[i - 1]))
          THEN drop \cup {i} ELSE drop)
    ELSE Lookback(i, Max(1, i - par.lookback), drop, segments, norm_texts, par)

RECURSIVE RepetitionLoop(_, _, _, _, _)
RepetitionLoop(i, drop, segments, norm_texts, par) ==
    IF i > Len(segments) THEN drop
    ELSE RepetitionLoop(i + 1, RepetitionStep(i, drop, segments, norm_texts, par),
                        segments, norm_texts, par)

\* line 89: norm_texts = [normalize_text(t) for t in texts]
RECURSIVE NormalizeAll(_)
NormalizeAll(texts) ==
    IF texts = <<>> THEN <<>>
    ELSE <<normalize_text(Head(texts))>> \o NormalizeAll(Tail(texts))

\* lines 64-189; the result holds indices counted from 1
detect_repetition_segments(segments, texts, par) ==
    RepetitionLoop(1, {}, segments, NormalizeAll(texts), par)

\* the kept entries with the index tested one place off
RECURSIVE KeepNotDroppedShifted(_, _, _)
KeepNotDroppedShifted(list, k, drop) ==
    IF k > Len(list) THEN <<>>
    ELSE (IF k - 1 \in drop THEN <<>> ELSE <<list[k]>>)
         \o KeepNotDroppedShifted(list, k + 1, drop)

\* lines 202-208
RECURSIVE KeepNotDropped(_, _, _)
KeepNotDropped(list, k, drop) ==
    IF k > Len(list) THEN <<>>
    ELSE (IF k \in drop THEN <<>> ELSE <<list[k]>>) \o KeepNotDropped(list, k + 1, drop)

\* transcript segments follow one another; only their durations and texts vary
RepTexts == {"on sort", "On sort !", "on y va", "euh"}
RepDurations == {30, 60, 120}

RECURSIVE RepInputs(_, _)
RepInputs(n, from) ==
    IF n = 0 THEN { <<>> }
    ELSE { <<>> }
         \cup UNION { { << <<<<from, from + d>>, txt>> >> \o rest : rest \in RepInputs(n - 1, from + d) } :
                        d \in RepDurations, txt \in RepTexts }

RepPars == { RepPar(3, 78, 45), RepPar(1, 78, 80), RepPar(1, 78, 45) }

\* a preview of a take followed by the take
RepExamples ==
    { << <<<<0, 150>>, "on va parler de linkedin">>,
         <<<<150, 400>>, "du coup on va parler de linkedin et du recrutement">> >> }
    \cup { << <<<<0, 60>>, "on sort">>,
              <<<<60, 60 + d>>, "cela reste bien plus long">>,
              <<<<60 + d, 120 + d>>, "On sort !">> >> : d \in {30, 120} }
    \cup { << <<<<0, 30>>, "on sort">>,
              <<<<30, 90>>, "il y a le sort">>,
              <<<<90, 210>>, "On sort !">> >> }

RepInit ==
    /\ rp_pc = "ready"
    /\ \E inp \in RepInputs(MaxSegs, 0) \cup RepExamples :
          /\ rp_segments = [k \in 1 .. Len(inp) |-> inp[k][1]]
          /\ rp_texts = [k \in 1 .. Len(inp) |-> inp[k][2]]
    /\ rp_par \in RepPars
    /\ rp_drop = {}
    /\ rp_kept_segments = <<>>
    /\ rp_kept_texts = <<>>

RepIdle ==
    /\ rp_pc = "idle"
    /\ rp_segments = <<>>
    /\ rp_texts = <<>>
    /\ rp_par = RepPar(0, 0, 0)
    /\ rp_drop = {}
    /\ rp_kept_segments = <<>>
    /\ rp_kept_texts = <<>>

\* lines 192-210: one call of apply_repetition_filter
ApplyRepetitionFilter ==
    /\ rp_pc = "ready"
    /\ LET drop == detect_repetition_segments(rp_segments, rp_texts, rp_par)
       IN /\ rp_drop' = drop
          /\ rp_kept_segments' = KeepNotDropped(rp_segments, 1, drop)
          /\ rp_kept_texts' = KeepNotDropped(rp_texts, 1, drop)
    /\ rp_pc' = "done"
    /\ UNCHANGED <<rp_segments, rp_texts, rp_par, silVars, nzVars, vadVars, gzVars, ptVars, ppVars, twVars, dfVars>>

RepNext == ApplyRepetitionFilter

-----------------------------------------------------------------------------
(* auto_editor.py, process_project: one recording through the pipeline.     *)
(* Times are in ticks of 0.01 s.                                            *)

\* lines 51-58
CUT_SILENCE_OVER_S == 25
MERGE_GAP_UNDER_S == 18
PRE_PAD_S == 8
POST_PAD_S == 10
MIN_SEGMENT_S == 45
DROP_SEGMENT_UNDER_S == 16

\* lines 207-208: defaults of remove_micro_stutter_segments
MAX_SEG_DUR_S == 35
MAX_STUTTER_GAP_S == 15

\* lines 354-356 and 368-369: arguments of the transcript pass
PUNCT_MAX_DURATION_S == 400
PUNCT_MIN_DURATION_S == 60
PUNCT_MAX_GAP_S == 90
REP_LOOKBACK == 3
REP_MIN_SIM == 78

\* lines 204-244; similar holds the positions k whose segment has an RMS within
\* 15 % of that of the segment before it (read from the audio); the segment bounds are
\* the doubles nearest to whole ticks of 0.01 s
RECURSIVE StutterLoop(_, _, _, _)
StutterLoop(cleaned, segments, k, similar) ==
    IF k > Len(segments) THEN cleaned
    ELSE IF k = 1 THEN StutterLoop(Append(cleaned, segments[1]), segments, 2, similar)
    ELSE LET prev == segments[k - 1]
             seg == segments[k]
             gap == FloatSub(Float(seg[1], ONE_SECOND), Float(prev[2], ONE_SECOND), ONE_SECOND)
             dur0 == FloatSub(Float(prev[2], ONE_SECOND), Float(prev[1], ONE_SECOND), ONE_SECOND)
             dur1 == FloatSub(Float(seg[2], ONE_SECOND), Float(seg[1], ONE_SECOND), ONE_SECOND)
         IN IF /\ FloatLeq(dur0, Float(MAX_SEG_DUR_S, ONE_SECOND))
               /\ FloatLeq(dur1, Float(MAX_SEG_DUR_S, ONE_SECOND))
               /\ FloatLeq(gap, Float(MAX_STUTTER_GAP_S, ONE_SECOND))
               /\ k \in similar
            THEN StutterLoop(Append(Front(cleaned), seg), segments, k + 1, similar)
            ELSE StutterLoop(Append(cleaned, seg), segments, k + 1, similar)

remove_micro_stutter_segments(segments, similar) == StutterLoop(<<>>, segments, 1, similar)

\* lines 79-85: the words of every segment of the transcription that have the
\* three keys
RECURSIVE KeepWellFormed(_)
KeepWellFormed(ws) ==
    IF ws = <<>> THEN <<>>
    ELSE (IF WellFormed(ws[1]) THEN <<ws[1]>> ELSE <<>>) \o KeepWellFormed(Tail(ws))

RECURSIVE flatten_words(_)
flatten_words(stt) ==
    IF stt = <<>> THEN <<>>
    ELSE KeepWellFormed(stt[1]) \o flatten_words(Tail(stt))

\* subprocess.run(cmd, check=True) and check_output: the program ends well, ends with
\* an error (CalledProcessError) or is not found on the PATH (FileNotFoundError)
RunOutcomes == {"none", "CalledProcessError", "FileNotFoundError"}

\* modules/ffmpeg_utils.py, lines 516-534 and the ffmpeg run of line 603: an empty
\* list is refused before ffmpeg is started; ran is the outcome of run(cmd, check=True)
concat_segments_single_pass(segments, ran) ==
    IF segments = <<>> THEN "ValueError" ELSE ran

\* the steps of process_project in the order of its text
PipelineOrder ==
    << "normalize", "extract_audio", "silence_cut", "concat_rough", "stt_concat",
       "punct_segments", "repetition_filter", "concat_clean", "stt_final",
       "subtitles", "final_render" >>

\* an order in which the repetition filter follows the silence cut at once
ResolverFirstOrder ==
    << "normalize", "extract_audio", "silence_cut", "repetition_filter", "concat_rough",
       "stt_concat", "punct_segments", "concat_clean", "stt_final", "subtitles",
       "final_render" >>

StageAfterResolverFirst(stage) ==
    LET k == CHOOSE i \in 1 .. Len(ResolverFirstOrder) : ResolverFirstOrder[i] = stage
    IN IF k = Len(ResolverFirstOrder) THEN "done" ELSE ResolverFirstOrder[k + 1]

StageAfter(stage) ==
    LET k == CHOOSE i \in 1 .. Len(PipelineOrder) : PipelineOrder[i] = stage
    IN IF k = Len(PipelineOrder) THEN "done" ELSE PipelineOrder[k + 1]

\* the point after a segment-producing step, without the empty test
ContinueAlways(segments, stage) == StageAfter(stage)

\* lines 308-310 and 376-378: "if not segments: return"
ContinueIfAny(segments, stage) == IF segments = <<>> THEN "returned" ELSE StageAfter(stage)

\* tracks and silence reports of the recordings; on these the rounded sums and
\* differences of build_segments_from_silences compare as the whole ticks do, and the
\* bounds it returns are the doubles of whole ticks
PipeDurations == {0, 100, 300}
PipeSilences ==
    { <<>>, << <<0, 300>> >>, << <<100, 200>> >>, << <<20, 60>>, <<75, 110>> >>,
      << <<30, 120>>, <<148, 300>> >> }

\* modules/stt.py line 23: the words the aligner may give, most with the blank that
\* precedes a word; one is blank and the last one lacks its end
AlignedWords ==
    << [start |-> 0, end |-> 20, word |-> "On"],
       [start |-> 20, end |-> 80, word |-> " sort."],
       [start |-> 100, end |-> 130, word |-> " on"],
       [start |-> 130, end |-> 220, word |-> " sort !"],
       [start |-> 220, end |-> 240, word |-> " "],
       [start |-> 320, end |-> 350, word |-> " Oui."],
       [start |-> 350, word |-> " euh"] >>

\* the end of the recording transcribed and the point where a second segment starts
ALIGNED_END == 400
ALIGNED_SPLIT == 100

RECURSIVE Pick(_, _, _)
Pick(list, k, keep) ==
    IF k > Len(list) THEN <<>>
    ELSE (IF k \in keep THEN <<list[k]>> ELSE <<>>) \o Pick(list, k + 1, keep)

\* what the aligner gives: one or two segments holding some of the words, in order
AlignedSegment(start, end, words) == [start |-> start, end |-> end, words |-> words]

AlignedResults ==
    { <<AlignedSegment(0, ALIGNED_END, Pick(AlignedWords, 1, keep))>> :
        keep \in SUBSET (1 .. Len(AlignedWords)) }
    \cup { <<AlignedSegment(0, ALIGNED_SPLIT, Pick(AlignedWords, 1, keep \cap {1, 2})),
             AlignedSegment(ALIGNED_SPLIT, ALIGNED_END, Pick(AlignedWords, 1, keep \ {1, 2}))>> :
             keep \in SUBSET (1 .. Len(AlignedWords)) }

\* modules/stt.py lines 33-41 (lines 64-70 for faster-whisper): the words of one
\* segment, stripped; the empty ones are dropped and a missing start or end is that
\* of the segment
RECURSIVE NormalizeWords(_, _)
NormalizeWords(seg, words) ==
    IF words = <<>> THEN <<>>
    ELSE LET w == words[1]
             text == IF "word" \in DOMAIN w THEN Strip(w.word) ELSE ""
         IN (IF text = "" THEN <<>>
             ELSE << [word |-> text,
                      start |-> IF "start" \in DOMAIN w THEN w.start ELSE seg.start,
                      end |-> IF "end" \in DOMAIN w THEN w.end ELSE seg.end] >>)
            \o NormalizeWords(seg, Tail(words))

\* modules/stt.py lines 26-43: the "words" of the segments of the result, segment
\* by segment
transcribe_with_words(aligned) ==
    [k \in 1 .. Len(aligned) |-> NormalizeWords(aligned[k], aligned[k].words)]

\* the transcriptions process_project may be handed
PipeTranscriptions == { transcribe_with_words(aligned) : aligned \in AlignedResults }

PipeInit ==
    /\ pp_pc = "normalize"
    /\ pp_log = <<>>
    /\ pp_segments_src = <<>>
    /\ pp_stt = <<>>
    /\ pp_segments_concat = <<>>
    /\ pp_texts = <<>>
    /\ pp_segments_clean = <<>>
    /\ pp_exception = "none"

PipeIdle ==
    /\ pp_pc = "idle"
    /\ pp_log = <<>>
    /\ pp_segments_src = <<>>
    /\ pp_stt = <<>>
    /\ pp_segments_concat = <<>>
    /\ pp_texts = <<>>
    /\ pp_segments_clean = <<>>
    /\ pp_exception = "none"

\* lines 332-342 and 400-411: extract_wav_mono16k runs ffmpeg with check=True;
\* transcribe_with_words swallows every exception of whisperx (stt.py lines 45-46) and
\* lets those of the faster-whisper fallback through (lines 49-59 have no try): a
\* failed import, or an error of the library when it loads the model or transcribes
SttOutcomes == RunOutcomes \cup {"ImportError", "RuntimeError"}

\* video_normalize.py lines 26-40: what ffprobe printed when it ended well, a stream
\* description, a list without streams, an object without the key, or nothing
ProbeOutputs == {"stream", "no stream", "no key", "no json"}

\* line 40: json.loads(probe)["streams"][0]
ParseProbe(printed) ==
    CASE printed = "stream" -> "none"
      [] printed = "no stream" -> "IndexError"
      [] printed = "no key" -> "KeyError"
      [] printed = "no json" -> "JSONDecodeError"

\* video_normalize.py lines 10-40 and the ffmpeg run that follows: probe_ran and
\* ffmpeg_ran are the outcomes of check_output and of run(cmd, check=True)
normalize_video(probe_ran, printed, ffmpeg_ran) ==
    IF probe_ran # "none" THEN probe_ran
    ELSE IF ParseProbe(printed) # "none" THEN ParseProbe(printed)
    ELSE ffmpeg_ran

\* auto_editor.py lines 69-76: what ffprobe printed as the duration when it ended
\* well, a number, N/A or nothing
DurationOutputs == {"number", "N/A", ""}

\* lines 70-76: float(out.decode().strip()) after the check_output
ffprobe_duration(ran, printed) ==
    IF ran # "none" THEN ran
    ELSE IF printed = "number" THEN "none"
    ELSE "ValueError"

\* a step that runs an external program: it ends or raises
External(stage, exception) ==
    /\ pp_pc = stage
    /\ pp_log' = Append(pp_log, stage)
    /\ pp_exception' = exception
    /\ pp_pc' = IF exception = "none" THEN StageAfter(stage) ELSE "raised"

\* lines 263-267; video_normalize.py runs ffprobe and ffmpeg with check=True
Normalize ==
    /\ \E probe_ran \in RunOutcomes, printed \in ProbeOutputs, ffmpeg_ran \in RunOutcomes :
          External("normalize", normalize_video(probe_ran, printed, ffmpeg_ran))
    /\ UNCHANGED <<pp_segments_src, pp_stt, pp_segments_concat, pp_texts, pp_segments_clean>>
    /\ UNCHANGED <<silVars, nzVars, vadVars, gzVars, ptVars, rpVars, twVars, dfVars>>

\* lines 272-275; audio_vad.py line 10 runs ffmpeg with check=True
ExtractAudio ==
    /\ \E exception \in RunOutcomes : External("extract_audio", exception)
    /\ UNCHANGED <<pp_segments_src, pp_stt, pp_segments_concat, pp_texts, pp_segments_clean>>
    /\ UNCHANGED <<silVars, nzVars, vadVars, gzVars, ptVars, rpVars, twVars, dfVars>>

\* lines 280-310: the duration, silence detection (which raises FileNotFoundError
\* without ffmpeg or without the audio file), segments, micro-stutter removal, empty
\* test
SilenceCut ==
    /\ pp_pc = "silence_cut"
    /\ pp_log' = Append(pp_log, "silence_cut")
    /\ \E ran \in RunOutcomes, printed \in DurationOutputs, found \in BOOLEAN :
          LET exception == IF ffprobe_duration(ran, printed) # "none"
                           THEN ffprobe_duration(ran, printed)
                           ELSE IF found THEN "none" ELSE "FileNotFoundError"
          IN
          IF exception # "none"
          THEN /\ pp_exception' = exception
               /\ pp_pc' = "raised"
               /\ UNCHANGED pp_segments_src
          ELSE \E dur \in PipeDurations, silences \in PipeSilences, similar \in SUBSET (2 .. 3) :
                  LET built == build_segments_from_silences(dur, silences,
                                   SilPar(CUT_SILENCE_OVER_S, MERGE_GAP_UNDER_S, PRE_PAD_S,
                                          POST_PAD_S, MIN_SEGMENT_S, DROP_SEGMENT_UNDER_S))
                      segments_src == remove_micro_stutter_segments(built, similar)
                  IN /\ pp_segments_src' = segments_src
                     /\ pp_exception' = "none"
                     /\ pp_pc' = ContinueIfAny(segments_src, "silence_cut")
    /\ UNCHANGED <<pp_stt, pp_segments_concat, pp_texts, pp_segments_clean>>
    /\ UNCHANGED <<silVars, nzVars, vadVars, gzVars, ptVars, rpVars, twVars, dfVars>>

\* lines 315-327
ConcatRough ==
    /\ \E ran \in RunOutcomes :
          External("concat_rough", concat_segments_single_pass(pp_segments_src, ran))
    /\ UNCHANGED <<pp_segments_src, pp_stt, pp_segments_concat, pp_texts, pp_segments_clean>>
    /\ UNCHANGED <<silVars, nzVars, vadVars, gzVars, ptVars, rpVars, twVars, dfVars>>

\* lines 332-342: the transcription of the rough cut
SttConcat ==
    /\ \E exception \in SttOutcomes : External("stt_concat", exception)
    /\ IF pp_exception' = "none"
       THEN pp_stt' \in PipeTranscriptions
       ELSE UNCHANGED pp_stt
    /\ UNCHANGED <<pp_segments_src, pp_segments_concat, pp_texts, pp_segments_clean>>
    /\ UNCHANGED <<silVars, nzVars, vadVars, gzVars, ptVars, rpVars, twVars, dfVars>>

\* lines 347-362: segments rebuilt from the words and their punctuation
PunctSegments ==
    /\ pp_pc = "punct_segments"
    /\ pp_log' = Append(pp_log, "punct_segments")
    /\ LET r == build_punct_segments_from_words(flatten_words(pp_stt),
                    PunctPar(PUNCT_MAX_DURATION_S, PUNCT_MIN_DURATION_S, PUNCT_MAX_GAP_S, TRUE))
       IN /\ pp_segments_concat' = r.segments
          /\ pp_texts' = r.texts
    /\ pp_pc' = StageAfter("punct_segments")
    /\ UNCHANGED <<pp_segments_src, pp_stt, pp_segments_clean, pp_exception>>
    /\ UNCHANGED <<silVars, nzVars, vadVars, gzVars, ptVars, rpVars, twVars, dfVars>>

\* lines 365-378: the repetition filter and the empty test
RepetitionFilter ==
    /\ pp_pc = "repetition_filter"
    /\ pp_log' = Append(pp_log, "repetition_filter")
    /\ LET drop == detect_repetition_segments(pp_segments_concat, pp_texts,
                       RepPar(REP_LOOKBACK, REP_MIN_SIM, MIN_SEGMENT_S))
           segments_clean == KeepNotDropped(pp_segments_concat, 1, drop)
       IN /\ pp_segments_clean' = segments_clean
          /\ pp_pc' = ContinueIfAny(segments_clean, "repetition_filter")
    /\ UNCHANGED <<pp_segments_src, pp_stt, pp_segments_concat, pp_texts, pp_exception>>
    /\ UNCHANGED <<silVars, nzVars, vadVars, gzVars, ptVars, rpVars, twVars, dfVars>>

\* lines 383-395
ConcatClean ==
    /\ \E ran \in RunOutcomes :
          External("concat_clean", concat_segments_single_pass(pp_segments_clean, ran))
    /\ UNCHANGED <<pp_segments_src, pp_stt, pp_segments_concat, pp_texts, pp_segments_clean>>
    /\ UNCHANGED <<silVars, nzVars, vadVars, gzVars, ptVars, rpVars, twVars, dfVars>>

\* lines 400-411
SttFinal ==
    /\ \E exception \in SttOutcomes : External("stt_final", exception)
    /\ UNCHANGED <<pp_segments_src, pp_stt, pp_segments_concat, pp_texts, pp_segments_clean>>
    /\ UNCHANGED <<silVars, nzVars, vadVars, gzVars, ptVars, rpVars, twVars, dfVars>>

\* lines 416-424; generate_karaoke_ass.py line 307 writes the file
Subtitles ==
    /\ \E ok \in BOOLEAN : External("subtitles", IF ok THEN "none" ELSE "OSError")
    /\ UNCHANGED <<pp_segments_src, pp_stt, pp_segments_concat, pp_texts, pp_segments_clean>>
    /\ UNCHANGED <<silVars, nzVars, vadVars, gzVars, ptVars, rpVars, twVars, dfVars>>

\* lines 429-453
FinalRender ==
    /\ \E exception \in RunOutcomes : External("final_render", exception)
    /\ UNCHANGED <<pp_segments_src, pp_stt, pp_segments_concat, pp_texts, pp_segments_clean>>
    /\ UNCHANGED <<silVars, nzVars, vadVars, gzVars, ptVars, rpVars, twVars, dfVars>>

PipeNext ==
    \/ Normalize
    \/ ExtractAudio
    \/ SilenceCut
    \/ ConcatRough
    \/ SttConcat
    \/ PunctSegments
    \/ RepetitionFilter
    \/ ConcatClean
    \/ SttFinal
    \/ Subtitles
    \/ FinalRender

-----------------------------------------------------------------------------
(* modules/repetition_word_filter.py : trim_leading_word_repetition, called *)
(* on a transcription the caller owns.  Times are in ticks of 0.01 s.       *)

\* lines 4-5: defaults
TRIM_MAX_WORDS == 5
TRIM_MAX_GAP_S == 100

\* str.lower()
RECURSIVE Lower(_)
Lower(str) ==
    IF Len(str) = 0 THEN "" ELSE LowerChar(CharAt(str, 1)) \o Lower(SubSeq(str, 2, Len(str)))

RECURSIVE WordTokens(_)
WordTokens(words) ==
    IF words = <<>> THEN <<>> ELSE <<Head(words).word>> \o WordTokens(Tail(words))

\* lines 21-28: the index (counted from 0) of the last leading repetition, 0 for none
RECURSIVE CutIndex(_, _, _)
CutIndex(words, i, cut_idx) ==
    IF i >= Min(Len(words), TRIM_MAX_WORDS) THEN cut_idx
    ELSE LET w == words[i + 1]
             gap == FloatSub(Float(w.start, ONE_SECOND), Float(words[1].end, ONE_SECOND), ONE_SECOND)
         IN IF Lower(w.word) = Lower(words[1].word) /\ FloatLeq(gap, Float(TRIM_MAX_GAP_S, ONE_SECOND))
            THEN CutIndex(words, i + 1, i)
            ELSE cut_idx

\* lines 14-37: one segment of the transcription after the call
TrimSegment(seg) ==
    IF Len(seg.words) < 2 THEN seg
    ELSE LET cut_idx == CutIndex(seg.words, 1, 0)
             kept == SubSeq(seg.words, cut_idx + 1, Len(seg.words))
         IN IF cut_idx # 0
            THEN [seg EXCEPT !.words = kept,
                             !.start = kept[1].start,
                             !.text = JoinBlank(WordTokens(kept))]
            ELSE seg

\* lines 13-37: the transcription object after the call
trim_leading_word_repetition(stt) == [k \in 1 .. Len(stt) |-> TrimSegment(stt[k])]

TrimTokens == {"je", "Je", "vais"}

\* word lists: each word 0.2 s long, at once or 1.5 s after the one before
RECURSIVE TrimWordLists(_, _)
TrimWordLists(n, from) ==
    IF n = 0 THEN { <<>> }
    ELSE { <<>> }
         \cup UNION { { <<[start |-> from + g, end |-> from + g + 20, word |-> tok]>> \o rest :
                            rest \in TrimWordLists(n - 1, from + g + 20) } :
                        g \in {0, 150}, tok \in TrimTokens }

\* a Whisper segment over a word list
TrimSegmentOf(words) ==
    [words |-> words,
     start |-> IF words = <<>> THEN 0 ELSE words[1].start,
     text |-> JoinBlank(WordTokens(words))]

TrimInit ==
    /\ tw_pc = "ready"
    /\ \E words \in TrimWordLists(MaxTrimWords, 0) : tw_stt = <<TrimSegmentOf(words)>>
    /\ tw_arg = <<>>

TrimIdle ==
    /\ tw_pc = "idle"
    /\ tw_stt = <<>>
    /\ tw_arg = <<>>

\* one call of trim_leading_word_repetition on the caller's transcription
TrimLeadingWordRepetition ==
    /\ tw_pc = "ready"
    /\ tw_arg' = tw_stt
    /\ tw_stt' = trim_leading_word_repetition(tw_stt)
    /\ tw_pc' = "called"
    /\ UNCHANGED <<silVars, nzVars, vadVars, gzVars, ptVars, rpVars, ppVars, dfVars>>

TrimNext == TrimLeadingWordRepetition

-----------------------------------------------------------------------------
(* modules/filler_filter.py : detect_fillers
   modules/restart_filter.py : detect_restarts
   modules/repetition_micro_filter.py : detect_micro_repetition_cuts
   Times are in ticks of 0.05 s. *)

\* filler_filter.py line 17-20: the default thresholds, and the pause 0.25 s of line 71
MAX_FILLER_S == 12
MAX_NOISE_S == 18
REPEAT_WINDOW_S == 10
SHORT_WORD_S == 7
SHORT_WORD_PAUSE_S == 5
\* restart_filter.py lines 13-15
RESTART_MIN_WORDS == 4
RESTART_SIM_THRESHOLD == 90
RESTART_MAX_GAP_S == 30
\* repetition_micro_filter.py lines 23-25, and the 6 words of lines 47 and 59
MICRO_MIN_SIM == 72
MICRO_MAX_GAP_S == 18
MICRO_LOOKBACK == 4
MICRO_HEAD_WORDS == 6

\* a call that ended with an exception, a call that returned cuts
Raised == [raised |-> TRUE, cuts |-> <<>>]
Returned(cuts) == [raised |-> FALSE, cuts |-> cuts]

\* w[key] raises KeyError unless the record has the key
Has(w, keys) == keys \subseteq DOMAIN w

\* the runs of equal characters of a string, one character per run
RECURSIVE Squeeze(_)
Squeeze(str) ==
    IF Len(str) <= 1 THEN str
    ELSE IF CharAt(str, 1) = CharAt(str, 2) THEN Squeeze(SubSeq(str, 2, Len(str)))
    ELSE CharAt(str, 1) \o Squeeze(SubSeq(str, 2, Len(str)))

\* FILLER_REGEX.match(text): ^(e+u+h+|h+e+u+|h+u+m+|m+m+|h+m+|u+h+)$
FillerRegexMatch(text) ==
    \/ Squeeze(text) \in {"euh", "heu", "hum", "hm", "uh"}
    \/ Squeeze(text) = "m" /\ Len(text) >= 2

COMMON_REPEATABLE ==
    {"je", "tu", "il", "elle", "on", "nous", "vous",
     "donc", "alors", "bah", "ben", "du", "de", "des"}

\* text.startswith("[")
StartsWithBracket(text) == Len(text) >= 1 /\ CharAt(text, 1) = "["

\* the immediate-repeat test without the word list
ImmediateRepeatAnyWord(text, prev_text, gap) ==
    text = prev_text /\ FloatLeq(gap, Secs(REPEAT_WINDOW_S))

\* lines 54-58: the immediate-repeat test of rule C
ImmediateRepeat(text, prev_text, gap) ==
    text = prev_text /\ text \in COMMON_REPEATABLE /\ FloatLeq(gap, Secs(REPEAT_WINDOW_S))

\* w["word"].lower().strip()
FillerText(w) == Strip(Lower(w.word))

\* lines 27-73: the loop over the words, i counted from 1; rules A, B, C, D in turn
RECURSIVE FillerLoop(_, _, _)
FillerLoop(words, i, cuts) ==
    IF i > Len(words) THEN Returned(cuts)
    ELSE LET w == words[i] IN
         IF ~Has(w, {"word", "start", "end"}) THEN Raised
         ELSE LET text == FillerText(w)
                  dur == SecsApart(w.end, w.start)
              IN IF FloatLeq(dur, Secs(MAX_FILLER_S)) /\ FillerRegexMatch(text)
                 THEN FillerLoop(words, i + 1, Append(cuts, <<w.start, w.end>>))
                 ELSE IF StartsWithBracket(text) /\ FloatLeq(dur, Secs(MAX_NOISE_S))
                 THEN FillerLoop(words, i + 1, Append(cuts, <<w.start, w.end>>))
                 ELSE IF i > 1 /\ ImmediateRepeat(text, FillerText(words[i - 1]),
                                                  SecsApart(w.start, words[i - 1].end))
                 THEN FillerLoop(words, i + 1,
                                 Append(cuts, <<words[i - 1].start, words[i - 1].end>>))
                 ELSE IF FloatLeq(dur, Secs(SHORT_WORD_S)) /\ i + 1 <= Len(words)
                 THEN IF ~Has(words[i + 1], {"start"}) THEN Raised
                      ELSE IF FloatLess(Secs(SHORT_WORD_PAUSE_S), SecsApart(words[i + 1].start, w.end))
                      THEN FillerLoop(words, i + 1, Append(cuts, <<w.start, w.end>>))
                      ELSE FillerLoop(words, i + 1, cuts)
                 ELSE FillerLoop(words, i + 1, cuts)

\* lines 15-75: the loop, then merge_intervals(cuts)
detect_fillers(words) ==
    LET r == FillerLoop(words, 1, <<>>)
    IN IF r.raised THEN Raised ELSE Returned(merge_intervals(r.cuts))

\* " ".join(w["word"].lower() for w in ws)
RECURSIVE LowerTokens(_)
LowerTokens(ws) ==
    IF ws = <<>> THEN <<>> ELSE <<Lower(Head(ws).word)>> \o LowerTokens(Tail(ws))

AllHave(ws, keys) == \A k \in 1 .. Len(ws) : Has(ws[k], keys)

\* words[i:i+min_words], i counted from 0
Window(words, i, min_words) == SubSeq(words, i + 1, i + min_words)

\* lines 32-44: the look-ahead from j (counted from 0); found |-> the matching j
RECURSIVE RestartScan(_, _, _, _, _)
RestartScan(words, j, a_text, a_end, min_words) ==
    IF j >= Len(words) - min_words THEN [raised |-> FALSE, found |-> FALSE, j |-> j]
    ELSE IF ~Has(words[j + 1], {"start"}) THEN [raised |-> TRUE, found |-> FALSE, j |-> j]
    ELSE IF FloatLess(Secs(RESTART_MAX_GAP_S), SecsApart(words[j + 1].start, a_end))
    THEN [raised |-> FALSE, found |-> FALSE, j |-> j]
    ELSE LET b_words == Window(words, j, min_words) IN
         IF ~AllHave(b_words, {"word"}) THEN [raised |-> TRUE, found |-> FALSE, j |-> j]
         ELSE IF SimilarityAtLeast(a_text, JoinBlank(LowerTokens(b_words)),
                                   RESTART_SIM_THRESHOLD)
         THEN [raised |-> FALSE, found |-> TRUE, j |-> j]
         ELSE RestartScan(words, j + 1, a_text, a_end, min_words)

\* the window that follows a match at j, from the statements i = j ... i += 1
ResumeAtMatch(j) == j

\* lines 42-46: i = j; break; then i += 1
ResumeAfter(j) == j + 1

\* lines 25-46: the loop over the first attempts, i counted from 0
RECURSIVE RestartLoop(_, _, _, _)
RestartLoop(words, i, cuts, min_words) ==
    IF ~(i < Len(words) - min_words) THEN Returned(cuts)
    ELSE LET a_words == Window(words, i, min_words) IN
         IF ~AllHave(a_words, {"word"}) \/ ~Has(Last(a_words), {"end"}) THEN Raised
         ELSE LET r == RestartScan(words, i + min_words, JoinBlank(LowerTokens(a_words)),
                                   Last(a_words).end, min_words)
              IN IF r.raised THEN Raised
                 ELSE IF r.found
                 THEN IF ~Has(a_words[1], {"start"}) THEN Raised
                      ELSE RestartLoop(words, ResumeAfter(r.j),
                                       Append(cuts, <<a_words[1].start, words[r.j + 1].start>>),
                                       min_words)
                 ELSE RestartLoop(words, i + 1, cuts, min_words)

\* lines 11-48
detect_restarts(words, min_words) == RestartLoop(words, 0, <<>>, min_words)

\* _norm: lower, the apostrophe, comma and full stop to blank, per character
NormChar(c) ==
    IF c = "," \/ c = "." THEN " " ELSE LowerChar(c)

RECURSIVE NormChars(_)
NormChars(str) ==
    IF Len(str) = 0 THEN ""
    ELSE NormChar(CharAt(str, 1)) \o NormChars(SubSeq(str, 2, Len(str)))

\* str.replace("  ", " "): one pass from the left, pairs that do not overlap
RECURSIVE ReplaceBlankPairs(_)
ReplaceBlankPairs(str) ==
    IF Len(str) <= 1 THEN str
    ELSE IF SubSeq(str, 1, 2) = "  " THEN " " \o ReplaceBlankPairs(SubSeq(str, 3, Len(str)))
    ELSE CharAt(str, 1) \o ReplaceBlankPairs(SubSeq(str, 2, Len(str)))

\* repetition_micro_filter.py lines 5-13
MicroNorm(s) == Strip(ReplaceBlankPairs(NormChars(s)))

\* " ".join(w["word"] for w in ws[:6])
HeadText(ws) == JoinBlank(WordTokens(SubSeq(ws, 1, Min(Len(ws), MICRO_HEAD_WORDS))))

HeadHas(ws, keys) == AllHave(SubSeq(ws, 1, Min(Len(ws), MICRO_HEAD_WORDS)), keys)

\* lines 49-69: the look-back from i to j - 1 (counted from 0); found |-> a cut
RECURSIVE MicroScan(_, _, _, _)
MicroScan(segments, i, j, cur_text) ==
    IF i >= j THEN [raised |-> FALSE, found |-> FALSE, i |-> i]
    ELSE LET prev == segments[i + 1]
             cur == segments[j + 1]
         IN IF prev.words = <<>> THEN MicroScan(segments, i + 1, j, cur_text)
            ELSE IF FloatLess(Secs(MICRO_MAX_GAP_S), SecsApart(cur.start, prev.end))
            THEN MicroScan(segments, i + 1, j, cur_text)
            ELSE IF ~HeadHas(prev.words, {"word"})
            THEN [raised |-> TRUE, found |-> FALSE, i |-> i]
            ELSE IF SimilarityAtLeast(MicroNorm(HeadText(prev.words)), MicroNorm(cur_text),
                                      MICRO_MIN_SIM)
            THEN [raised |-> FALSE, found |-> TRUE, i |-> i]
            ELSE MicroScan(segments, i + 1, j, cur_text)

\* lines 41-69: the loop over the segments, j counted from 0
RECURSIVE MicroLoop(_, _, _)
MicroLoop(segments, j, cuts) ==
    IF j >= Len(segments) THEN Returned(cuts)
    ELSE LET cur == segments[j + 1] IN
         IF cur.words = <<>> THEN MicroLoop(segments, j + 1, cuts)
         ELSE IF ~HeadHas(cur.words, {"word"}) THEN Raised
         ELSE LET r == MicroScan(segments, Max(0, j - MICRO_LOOKBACK), j, HeadText(cur.words))
              IN IF r.raised THEN Raised
                 ELSE IF r.found
                 THEN MicroLoop(segments, j + 1,
                                Append(cuts, <<segments[r.i + 1].start, cur.start>>))
                 ELSE MicroLoop(segments, j + 1, cuts)

\* lines 20-71
detect_micro_repetition_cuts(segments) == MicroLoop(segments, 1, <<>>)

\* a transcription over a word list: a segment without words, then one segment a word
WordSpan(w) == IF Has(w, {"end"}) THEN <<w.start, w.end>> ELSE <<w.start, w.start + 4>>

MicroSegments(words) ==
    << [start |-> 0, end |-> 0, words |-> <<>>] >>
    \o [k \in 1 .. Len(words) |->
            [start |-> WordSpan(words[k])[1], end |-> WordSpan(words[k])[2],
             words |-> <<words[k]>>]]

MaxDfWords == 3

DfTokens == {"je", " Je", "I", "euh", "[x]"}

\* a well-formed word after a pause, or a record lacking "end" or lacking "word"
DfRecords(from) ==
    { [start |-> from + g, end |-> from + g + d, word |-> tok] :
          g \in {0, 6, 12}, d \in {4, 14}, tok \in DfTokens }
    \cup { [start |-> from, word |-> "je"], [start |-> from, end |-> from + 4] }

RECURSIVE DfWordLists(_, _)
DfWordLists(n, from) ==
    IF n = 0 THEN { <<>> }
    ELSE { <<>> }
         \cup UNION { { <<w>> \o rest : rest \in DfWordLists(n - 1, WordSpan(w)[2]) } :
                        w \in DfRecords(from) }

\* words said one after the other, 0.4 s each
RECURSIVE Said(_, _)
Said(tokens, from) ==
    IF tokens = <<>> THEN <<>>
    ELSE << [start |-> from, end |-> from + 8, word |-> Head(tokens)] >>
         \o Said(Tail(tokens), from + 8)

DfExamples ==
    { Said(<<"I", "I", "went", "went", "there">>, 0),
      Said(<<"je", "je", "vais", "vais", "la">>, 0),
      Said(<<"je", "vais", "je", "vais", "la">>, 0),
      Said(<<"on", "va", "on", "va", "on", "va", "ici">>, 0),
      Said(<<"je", "vais", "je", "vais">>, 0),
      Said(<<"on", "va", "on", "va", "je", "dis", "je", "dis", "la">>, 0),
      Said(<<"on", "va", "on", "va", "on", "va", "ici", "la">>, 0) }

DisfluencyInit ==
    /\ df_pc = "ready"
    /\ df_words \in DfWordLists(MaxDfWords, 0) \cup DfExamples
    /\ df_min_words \in {2, RESTART_MIN_WORDS}
    /\ df_fn = ""
    /\ df_ret = Returned(<<>>)

DisfluencyIdle ==
    /\ df_pc = "idle"
    /\ df_words = <<>>
    /\ df_min_words = 0
    /\ df_fn = ""
    /\ df_ret = Returned(<<>>)

\* one call of detect_fillers on the word list
DetectFillers ==
    /\ df_pc = "ready"
    /\ df_fn' = "detect_fillers"
    /\ df_ret' = detect_fillers(df_words)
    /\ df_pc' = IF df_ret'.raised THEN "raised" ELSE "returned"
    /\ UNCHANGED <<df_words, df_min_words, silVars, nzVars, vadVars, gzVars, ptVars, rpVars,
                   ppVars, twVars>>

\* one call of detect_restarts on the word list
DetectRestarts ==
    /\ df_pc = "ready"
    /\ df_fn' = "detect_restarts"
    /\ df_ret' = detect_restarts(df_words, df_min_words)
    /\ df_pc' = IF df_ret'.raised THEN "raised" ELSE "returned"
    /\ UNCHANGED <<df_words, df_min_words, silVars, nzVars, vadVars, gzVars, ptVars, rpVars,
                   ppVars, twVars>>

\* one call of detect_micro_repetition_cuts on the transcription over the word list
DetectMicroRepetitionCuts ==
    /\ df_pc = "ready"
    /\ df_fn' = "detect_micro_repetition_cuts"
    /\ df_ret' = detect_micro_repetition_cuts(MicroSegments(df_words))
    /\ df_pc' = IF df_ret'.raised THEN "raised" ELSE "returned"
    /\ UNCHANGED <<df_words, df_min_words, silVars, nzVars, vadVars, gzVars, ptVars, rpVars,
                   ppVars, twVars>>

DisfluencyNext == DetectFillers \/ DetectRestarts \/ DetectMicroRepetitionCuts

-----------------------------------------------------------------------------
SilNext == BuildSegments

SilAlone ==
    SilInit /\ NzIdle /\ VadIdle /\ GazeIdle /\ PunctIdle /\ RepIdle /\ PipeIdle /\ TrimIdle /\ DisfluencyIdle

SpecSil == SilAlone /\ [][SilNext]_vars

NzAlone ==
    SilIdle /\ NzInit /\ VadIdle /\ GazeIdle /\ PunctIdle /\ RepIdle /\ PipeIdle /\ TrimIdle /\ DisfluencyIdle

SpecNz == NzAlone /\ [][NzNext]_vars

VadAlone ==
    SilIdle /\ NzIdle /\ VadInit /\ GazeIdle /\ PunctIdle /\ RepIdle /\ PipeIdle /\ TrimIdle /\ DisfluencyIdle

SpecVad == VadAlone /\ [][VadNext]_vars

GazeAlone ==
    SilIdle /\ NzIdle /\ VadIdle /\ GazeInit /\ PunctIdle /\ RepIdle /\ PipeIdle /\ TrimIdle /\ DisfluencyIdle

SpecGaze == GazeAlone /\ [][GazeNext]_vars

PunctAlone ==
    SilIdle /\ NzIdle /\ VadIdle /\ GazeIdle /\ PunctInit /\ RepIdle /\ PipeIdle /\ TrimIdle /\ DisfluencyIdle

SpecPunct == PunctAlone /\ [][PunctNext]_vars

RepAlone ==
    SilIdle /\ NzIdle /\ VadIdle /\ GazeIdle /\ PunctIdle /\ RepInit /\ PipeIdle /\ TrimIdle /\ DisfluencyIdle

SpecRep == RepAlone /\ [][RepNext]_vars

PipeAlone ==
    SilIdle /\ NzIdle /\ VadIdle /\ GazeIdle /\ PunctIdle /\ RepIdle /\ PipeInit /\ TrimIdle /\ DisfluencyIdle

SpecPipe == PipeAlone /\ [][PipeNext]_vars

\* the four segment-producing stages, one of them called
EmitInit ==
    \/ SilInit /\ NzIdle /\ VadIdle /\ GazeIdle /\ PunctIdle /\ RepIdle /\ PipeIdle /\ TrimIdle /\ DisfluencyIdle
    \/ SilIdle /\ NzIdle /\ VadInit /\ GazeIdle /\ PunctIdle /\ RepIdle /\ PipeIdle /\ TrimIdle /\ DisfluencyIdle
    \/ SilIdle /\ NzIdle /\ VadIdle /\ GazeInit /\ PunctIdle /\ RepIdle /\ PipeIdle /\ TrimIdle /\ DisfluencyIdle
    \/ SilIdle /\ NzIdle /\ VadIdle /\ GazeIdle /\ PunctInit /\ RepIdle /\ PipeIdle /\ TrimIdle /\ DisfluencyIdle

EmitNext == SilNext \/ VadNext \/ GazeNext \/ PunctNext

SpecEmit == EmitInit /\ [][EmitNext]_vars

\* the routines that are handed an object of their caller, one of them called
CalleeInit ==
    \/ SilIdle /\ NzInit /\ VadIdle /\ GazeIdle /\ PunctIdle /\ RepIdle /\ PipeIdle /\ TrimIdle /\ DisfluencyIdle
    \/ SilIdle /\ NzIdle /\ VadIdle /\ GazeIdle /\ PunctIdle /\ RepIdle /\ PipeIdle /\ TrimInit /\ DisfluencyIdle

CalleeNext == NzNext \/ TrimNext

SpecCallee == CalleeInit /\ [][CalleeNext]_vars

DisfluencyAlone ==
    SilIdle /\ NzIdle /\ VadIdle /\ GazeIdle /\ PunctIdle /\ RepIdle /\ PipeIdle /\ TrimIdle
    /\ DisfluencyInit

SpecDisfluency == DisfluencyAlone /\ [][DisfluencyNext]_vars

Spec == SpecSil

-----------------------------------------------------------------------------
(* Properties of interval lists *)

\* sorted ascending by start, each start strictly after the previous end
SortedDisjoint(list) ==
    \A k \in 1 .. Len(list) - 1 :
        /\ list[k][1] <= list[k + 1][1]
        /\ list[k + 1][1] > list[k][2]

WithinTrack(list, duration_s) ==
    \A k \in 1 .. Len(list) : 0 <= list[k][1] /\ list[k][2] <= duration_s /\
                              0 <= list[k][2] /\ list[k][1] <= duration_s

\* C2: for every duration_s > 0 and every list of silences, the list returned by
\* build_segments_from_silences is sorted by start, pairwise non-overlapping and
\* lies within [0, duration_s].
C2_SortedDisjointBounded ==
    (sil_pc = "done" /\ sil_duration > 0) =>
        SortedDisjoint(sil_out) /\ WithinTrack(sil_out, sil_duration)

\* C2 witness: two silences handed over in reverse order, the first of them
\* running past the end of the track, and a result of two segments
C2_Witness ==
    /\ sil_pc = "done"
    /\ sil_duration > 0
    /\ Len(sil_out) = 2
    /\ Len(sil_silences) = 2
    /\ sil_silences[1][1] > sil_silences[2][1]
    /\ sil_silences[1][2] > sil_duration

\* C4: each interval-normalising routine is idempotent: handed its own result,
\* with the same thresholds, it returns that result unchanged (merge_intervals,
\* merge_close_segments, the post-process of vad_segments, the tail of
\* build_segments_from_silences).
C4_Idempotent == nz_pc = "again" => nz_ret2 = nz_ret

\* C4 witness: a second call on a result that the first call really changed
C4_Witness ==
    /\ nz_pc = "again"
    /\ nz_kind = "merge_close_segments"
    /\ Len(nz_arg) = 3
    /\ Len(nz_ret) = 2
    /\ nz_ret2 = nz_ret

ShorterThan(p, min_len) == p[2] > p[1] /\ p[2] - p[1] < min_len

\* two candidates, each shorter than the minimum, in order, gap within the merge gap,
\* whose union is at least the minimum long
TwoShortClose(list, min_len, gap) ==
    /\ Len(list) = 2
    /\ ShorterThan(list[1], min_len)
    /\ ShorterThan(list[2], min_len)
    /\ list[2][1] >= list[1][2]
    /\ list[2][1] - list[1][2] <= gap
    /\ list[2][2] - list[1][1] >= min_len

NzDropMergeCall == nz_pc = "called" /\ nz_kind \in {"vad_post", "silence_tail"}

\* C5 as stated: the minimum-duration drop comes after the merge, so two short
\* candidates within the merge gap come out as one merged interval.
C5_MergeBeforeDrop ==
    (NzDropMergeCall /\ TwoShortClose(nz_arg, nz_par.min_len, nz_par.gap)) =>
        nz_ret = << <<nz_arg[1][1], nz_arg[2][2]>> >>

\* C5 amended: the drop comes before the merge: every candidate shorter than the
\* minimum is dropped on its own, whatever its neighbours, so two short candidates
\* within the merge gap are both dropped, and every interval returned contains a
\* candidate that is itself at least the minimum long.
C5_DropBeforeMerge ==
    NzDropMergeCall =>
        /\ TwoShortClose(nz_arg, nz_par.min_len, nz_par.gap) => nz_ret = <<>>
        /\ \A k \in 1 .. Len(nz_ret) :
              \E j \in 1 .. Len(nz_arg) :
                  LET d == IF nz_kind = "silence_tail" THEN nz_par.duration_s ELSE MaxT
                      s == Max(0, Min(d, nz_arg[j][1]))
                      e == Max(0, Min(d, nz_arg[j][2]))
                  IN /\ e - s >= nz_par.min_len
                     /\ nz_ret[k][1] <= s
                     /\ e <= nz_ret[k][2]

\* C5 witness: the post-process of vad_segments handed two short, close candidates
C5_Witness ==
    /\ nz_pc = "called"
    /\ nz_kind = "vad_post"
    /\ TwoShortClose(nz_arg, nz_par.min_len, nz_par.gap)
    /\ nz_par.gap = 1
    /\ nz_arg[2][1] > nz_arg[1][2]

\* C9: no stage modifies what it is given: the list passed to merge_intervals,
\* merge_close_segments or build_segments_from_silences has the same elements in
\* the same order after the call, and the segment records passed to
\* trim_leading_word_repetition keep their word lists, start and text.
C9_InputsUnchanged ==
    /\ nz_pc \in {"called", "again"} => nz_list = nz_arg
    /\ tw_pc = "called" => tw_stt = tw_arg

-----------------------------------------------------------------------------
(* Ground truth of a frame sequence: its maximal runs *)

\* a voiced run starts at frame a (timestamp a)
VoicedRunStart(frames, a) ==
    /\ a \in 0 .. Len(frames) - 1
    /\ frames[a + 1]
    /\ (a = 0 \/ ~frames[a])

\* a voiced run ends with frame b - 1, at time b
VoicedRunEnd(frames, b) ==
    /\ b \in 1 .. Len(frames)
    /\ frames[b]
    /\ (b = Len(frames) \/ ~frames[b + 1])

\* every maximal run of equal decisions is longer than n frames
RunsLongerThan(frames, n) ==
    /\ Len(frames) > n
    /\ \A i \in 1 .. Len(frames) :
          (i = 1 \/ frames[i - 1] # frames[i]) =>
              /\ i + n <= Len(frames)
              /\ \A k \in i .. i + n : frames[k] = frames[i]

VadAlternating == vad_pc = "done" /\ RunsLongerThan(vad_frames, vad_par.num_padding)

Within(x, y, d) == x - y <= d /\ y - x <= d

\* C6 as stated: on alternating runs, each longer than the padding window, every
\* returned segment starts within one frame of the true start of a voiced run and
\* ends within one frame of the true end of that run.
C6_BoundariesWithinOneFrame ==
    VadAlternating =>
        \A k \in 1 .. Len(vad_out) :
            \E a \in 0 .. Len(vad_frames), b \in 0 .. Len(vad_frames) :
                /\ VoicedRunStart(vad_frames, a)
                /\ VoicedRunEnd(vad_frames, b)
                /\ a < b
                /\ \A j \in a + 1 .. b : vad_frames[j]
                /\ Within(vad_out[k][1], a, 1)
                /\ Within(vad_out[k][2], b, 1)

\* the number of unvoiced (voiced) frames that bring the window above 90 %
HangFrames(num_padding) == (9 * num_padding) \div 10 + 1

\* C6 amended: the start of every returned segment is the true start of a voiced
\* run, or earlier by at most N - K frames (one frame with the default window of
\* N = 15 frames); its end is the true end of a voiced run plus K frames, K being
\* the number of unvoiced frames that make more than 90 % of the window (14 with
\* the defaults), or the end of the audio when the audio ends in a voiced run.
C6_StartExactEndLate ==
    VadAlternating =>
        \A k \in 1 .. Len(vad_out) :
            /\ \E a \in 0 .. Len(vad_frames) :
                  /\ VoicedRunStart(vad_frames, a)
                  /\ vad_out[k][1] <= a
                  /\ a - vad_out[k][1] <= vad_par.num_padding - HangFrames(vad_par.num_padding)
            /\ \E b \in 0 .. Len(vad_frames) :
                  /\ VoicedRunEnd(vad_frames, b)
                  /\ \/ vad_out[k][2] = b + HangFrames(vad_par.num_padding)
                     \/ vad_out[k][2] = b /\ b = Len(vad_frames)

\* C6 witness: default window, two voiced runs around an unvoiced one, the first
\* segment closed 14 frames after the run's end, the second started one frame early
C6_Witness ==
    /\ VadAlternating
    /\ vad_par.num_padding = DEFAULT_NUM_PADDING
    /\ Len(vad_out) = 2
    /\ vad_frames[1]
    /\ VoicedRunEnd(vad_frames, vad_out[1][2] - 14)
    /\ VoicedRunStart(vad_frames, vad_out[2][1] + 1)

-----------------------------------------------------------------------------
(* Coverage of the gaze filter's result by its input                        *)

\* the instant x lies in an interval of the list
Covered(x, list) == \E j \in 1 .. Len(list) : list[j][1] <= x /\ x <= list[j][2]

\* the instants between x and x + 1 lie in an interval of the list
CoveredSpan(x, list) == \E j \in 1 .. Len(list) : list[j][1] <= x /\ x + 1 <= list[j][2]

\* C1: every time instant covered by the list returned by refine_segments_by_gaze
\* is covered by some input segment: the gaze filter only removes or shrinks.
C1_GazeOnlyShrinks ==
    gz_pc = "done" =>
        \A k \in 1 .. Len(gz_out) :
            \A x \in gz_out[k][1] .. gz_out[k][2] :
                /\ Covered(x, gz_segments)
                /\ x < gz_out[k][2] => CoveredSpan(x, gz_segments)

-----------------------------------------------------------------------------
(* Repetition drop symmetry                                                 *)

TwoIdenticalTakes ==
    /\ rp_pc = "done"
    /\ Len(rp_segments) = 2
    /\ normalize_text(rp_texts[1]) = normalize_text(rp_texts[2])
    /\ Duration(rp_segments[1]) # Duration(rp_segments[2])

ShorterTake == IF FloatLess(Duration(rp_segments[1]), Duration(rp_segments[2])) THEN 1 ELSE 2

LongerTake == 3 - ShorterTake

\* C3: of two adjacent segments with the same normalized text and different
\* durations, apply_repetition_filter drops the shorter one, be it the first
\* or the second, and drops neither when the longer one is below min_keep_s.
C3_DropSymmetry ==
    TwoIdenticalTakes =>
        rp_drop = IF ReachesMinKeep(Duration(rp_segments[LongerTake]), rp_par.min_keep_s)
                  THEN {ShorterTake} ELSE {}

-----------------------------------------------------------------------------
(* Early return of process_project                                          *)

\* the silence cut of lines 280-303 ended with no segment
SilenceCutEmpty ==
    /\ Len(pp_log) >= 3
    /\ pp_segments_src = <<>>
    /\ ~(Len(pp_log) = 3 /\ pp_exception # "none")

\* the repetition filter of lines 365-371 ended with no segment
RepetitionFilterEmpty == Len(pp_log) >= 7 /\ pp_segments_clean = <<>>

\* C7: when the segment list is empty after the silence cut (micro-stutter
\* removal included) or after the repetition filter, process_project returns
\* at that point: no later step is started and no exception is raised.
C7_EmptyReturnsEarly ==
    /\ SilenceCutEmpty =>
          /\ pp_pc = "returned"
          /\ pp_log = SubSeq(PipelineOrder, 1, 3)
          /\ pp_exception = "none"
    /\ RepetitionFilterEmpty =>
          /\ pp_pc = "returned"
          /\ pp_log = SubSeq(PipelineOrder, 1, 7)
          /\ pp_exception = "none"

\* C7 witness: a transcription with words of which no segment is left after the
\* repetition filter, and the function has returned
C7_Witness ==
    /\ pp_pc = "returned"
    /\ Len(pp_log) = 7
    /\ flatten_words(pp_stt) # <<>>
    /\ pp_segments_src # <<>>
    /\ pp_segments_clean = <<>>

-----------------------------------------------------------------------------
(* Order of the stages of process_project                                   *)

RECURSIVE Project(_, _)
Project(log, names) ==
    IF log = <<>> THEN <<>>
    ELSE (IF Head(log) \in names THEN <<Head(log)>> ELSE <<>>) \o Project(Tail(log), names)

IsPrefix(p, q) == Len(p) <= Len(q) /\ p = SubSeq(q, 1, Len(p))

Names(order) == { order[k] : k \in 1 .. Len(order) }

\* the order of the stages as stated
StatedOrder ==
    << "silence_cut", "gaze_filter", "disfluency_detector", "concat_rough",
       "punct_segments", "repetition_filter" >>

\* the order of the same stages in process_project
ActualOrder == << "silence_cut", "concat_rough", "punct_segments", "repetition_filter" >>

\* C8 as stated: the stages run in the order Silence/Voice Segmenter, Gaze
\* Validity Filter, Disfluency Cut Detector, rough concatenation, transcript
\* re-segmentation, Retake Resolver; the gaze filter and the disfluency detector
\* always run before the Retake Resolver.
C8_StatedStageOrder ==
    /\ IsPrefix(Project(pp_log, Names(StatedOrder)), StatedOrder)
    /\ "repetition_filter" \in Names(pp_log) =>
          {"gaze_filter", "disfluency_detector"} \subseteq Names(pp_log)

\* a list is what is left of another after dropping some of its elements
RECURSIVE IsSubsequence(_, _)
IsSubsequence(p, q) ==
    IF p = <<>> THEN TRUE
    ELSE IF q = <<>> THEN FALSE
    ELSE IF Head(p) = Head(q) THEN IsSubsequence(Tail(p), Tail(q))
    ELSE IsSubsequence(p, Tail(q))

\* C8 amended: process_project runs the silence segmenter (with micro-stutter
\* removal), then the rough concatenation, then the transcript re-segmentation,
\* then the Retake Resolver, which never runs before the rough concatenation
\* and works on the re-segmented list; the gaze filter and the disfluency
\* detector are not run at all.
C8_ActualStageOrder ==
    /\ IsPrefix(pp_log, PipelineOrder)
    /\ IsPrefix(Project(pp_log, Names(ActualOrder)), ActualOrder)
    /\ "gaze_filter" \notin Names(pp_log)
    /\ "disfluency_detector" \notin Names(pp_log)
    /\ "repetition_filter" \in Names(pp_log) =>
          /\ "concat_rough" \in Names(pp_log)
          /\ IsSubsequence(pp_segments_clean, pp_segments_concat)

\* C8 witness: a recording rendered to the end whose Retake Resolver removed a take
C8_Witness ==
    /\ pp_pc = "done"
    /\ Len(pp_log) = Len(PipelineOrder)
    /\ pp_segments_clean # <<>>
    /\ Len(pp_segments_clean) < Len(pp_segments_concat)

-----------------------------------------------------------------------------
(* No degenerate interval                                                   *)

Proper(list) == \A k \in 1 .. Len(list) : list[k][2] > list[k][1]

\* C10: with positive minimum-duration thresholds, every interval emitted by
\* build_segments_from_silences, vad_segments, refine_segments_by_gaze and
\* build_punct_segments_from_words has its end strictly after its start.
C10_NoDegenerateInterval ==
    /\ (sil_pc = "done" /\ sil_par.min_segment_s > 0 /\ sil_par.drop_segment_under_s > 0) =>
          Proper(sil_out)
    /\ (vad_pc = "done" /\ vad_par.min_len > 0) => Proper(vad_out)
    /\ (gz_pc # "idle" /\ gz_cfg.min_segment_duration_s > 0) =>
          Proper(gz_refined) /\ Proper(gz_out)
    /\ (pt_pc = "done" /\ pt_par.min_duration_s > 0) => Proper(pt_segments)

\* C10 witness: a transcript with a word of no length, closed by a gap, and a
\* segment emitted by build_punct_segments_from_words under a positive minimum
C10_Witness ==
    /\ pt_pc = "done"
    /\ pt_par.min_duration_s > 0
    /\ Len(pt_words) = 3
    /\ WellFormed(pt_words[1])
    /\ pt_words[1].end = pt_words[1].start
    /\ WellFormed(pt_words[2])
    /\ pt_words[2].start - pt_words[1].end > pt_par.max_gap_s
    /\ pt_segments # <<>>

\* with a minimum duration of zero, refine_segments_by_gaze and
\* build_punct_segments_from_words do emit intervals of no length
ZeroMinimumDegenerate ==
    \/ gz_pc = "done" /\ gz_cfg.min_segment_duration_s = 0 /\ ~Proper(gz_out)
    \/ pt_pc = "done" /\ pt_par.min_duration_s = 0 /\ ~Proper(pt_segments)

-----------------------------------------------------------------------------
(* Short silences of build_segments_from_silences                           *)

\* the raw speech chunks of the call, and the candidate segments made of them
SilSpeech == RawSpeech(sil_duration, sil_silences)

SilCandidates == IF SilSpeech = <<>> THEN <<>> ELSE CandidateSegments(SilSpeech, sil_par)

\* the interval holds the instant
Holds(p, x) == p[1] <= x /\ x <= p[2]

\* C11: a silence between two raw speech chunks that is shorter than
\* cut_silence_over_s (under merge_gap_under_s or between the two thresholds)
\* never causes a split: the two chunks are in the same candidate segment, and
\* every returned segment holds both sides of the silence or neither.
C11_ShortSilenceNoSplit ==
    (sil_pc = "done" /\ sil_duration > 0) =>
        \A i \in 1 .. Len(SilSpeech) - 1 :
            LET a_e == SilSpeech[i][2]
                b_s == SilSpeech[i + 1][1]
            IN (a_e < b_s /\ b_s - a_e < sil_par.cut_silence_over_s) =>
                  /\ \E k \in 1 .. Len(SilCandidates) :
                        Holds(SilCandidates[k], a_e) /\ Holds(SilCandidates[k], b_s)
                  /\ \A k \in 1 .. Len(sil_out) :
                        Holds(sil_out[k], a_e) <=> Holds(sil_out[k], b_s)

\* C11 witness: one silence inside the track, between the two thresholds, and
\* the whole track returned as one segment
C11_Witness ==
    /\ sil_pc = "done"
    /\ Len(sil_silences) = 1
    /\ sil_silences[1][1] > 0
    /\ sil_silences[1][2] < sil_duration
    /\ sil_silences[1][2] - sil_silences[1][1] >= sil_par.merge_gap_under_s
    /\ sil_silences[1][2] - sil_silences[1][1] < sil_par.cut_silence_over_s
    /\ sil_out = << <<0, sil_duration>> >>

-----------------------------------------------------------------------------
(* Containment rule of detect_repetition_segments                           *)

\* at least 60 % of the tokens of segment i are tokens of segment i + 1, and i
\* is the shorter of the two (norm holds the normalized texts)
MostlyInNext(i, norm) ==
    /\ i + 1 <= Len(rp_segments)
    /\ token_set(norm[i]) # {}
    /\ 10 * Cardinality(token_set(norm[i]) \cap token_set(norm[i + 1]))
          >= 6 * Cardinality(token_set(norm[i]))
    /\ FloatLess(Duration(rp_segments[i]), Duration(rp_segments[i + 1]))

\* the windowed lookback of segment i picks segment j and drops it
LookbackDrops(i, j, norm) ==
    /\ j < i
    /\ i - j <= rp_par.lookback
    /\ norm[i] # ""
    /\ norm[j] # ""
    /\ FloatLeq(Duration(rp_segments[j]), Duration(rp_segments[i]))
    /\ ReachesMinKeep(Duration(rp_segments[i]), rp_par.min_keep_s)
    /\ SimilarityAtLeast(norm[i], norm[j], rp_par.min_sim)

\* C12: every segment i that has a successor, has tokens of which at least 60 %
\* occur in segment i + 1, and is shorter than segment i + 1, is dropped, and no
\* later rule is evaluated for it: the first segment is dropped only by the
\* containment rule or by the lookback of a later segment that the containment
\* rule did not drop.
C12_ContainedIsDropped ==
    rp_pc = "done" =>
        LET norm == NormalizeAll(rp_texts)
        IN /\ \A i \in 1 .. Len(rp_segments) : MostlyInNext(i, norm) => i \in rp_drop
           /\ 1 \in rp_drop =>
                 \/ MostlyInNext(1, norm)
                 \/ \E i \in 2 .. Len(rp_segments) :
                       ~MostlyInNext(i, norm) /\ LookbackDrops(i, 1, norm)

\* C12 witness: the preview 'on va parler de linkedin' is dropped and the
\* longer take that follows it is kept
C12_Witness ==
    /\ rp_pc = "done"
    /\ rp_texts = <<"on va parler de linkedin",
                    "du coup on va parler de linkedin et du recrutement">>
    /\ FloatLess(Duration(rp_segments[1]), Duration(rp_segments[2]))
    /\ rp_drop = {1}
    /\ rp_kept_texts = <<"du coup on va parler de linkedin et du recrutement">>


-----------------------------------------------------------------------------
(* detect_fillers: the immediate-repeat rule *)

FillersReturned == df_pc = "returned" /\ df_fn = "detect_fillers"
RestartsReturned == df_pc = "returned" /\ df_fn = "detect_restarts"

CoversWord(c, w) == c[1] <= w.start /\ w.end <= c[2]
OverlapsWord(c, w) == c[1] < w.end /\ w.start < c[2]
IsCut(w) == \E k \in 1 .. Len(df_ret.cuts) : CoversWord(df_ret.cuts[k], w)
IsUntouched(w) == \A k \in 1 .. Len(df_ret.cuts) : ~OverlapsWord(df_ret.cuts[k], w)

\* word i says again word i - 1 within the repeat window
SaysAgain(i) ==
    /\ 2 <= i /\ i <= Len(df_words)
    /\ FillerText(df_words[i]) = FillerText(df_words[i - 1])
    /\ FloatLeq(SecsApart(df_words[i].start, df_words[i - 1].end), Secs(REPEAT_WINDOW_S))

IWentThere == Said(<<"I", "I", "went", "went", "there">>, 0)
JeVaisLa == Said(<<"je", "je", "vais", "vais", "la">>, 0)

\* C13 as stated: whenever a word says again the word before it within the repeat
\* window, detect_fillers cuts the earlier of the two; for I, I, went, went, there it
\* cuts the first I and the first went.
C13_AnyImmediateRepeatCut ==
    FillersReturned =>
        /\ \A i \in 2 .. Len(df_words) : SaysAgain(i) => IsCut(df_words[i - 1])
        /\ df_words = IWentThere => df_ret.cuts = << <<0, 8>>, <<16, 24>> >>

\* C13 amended: the immediate-repeat rule acts on the words of COMMON_REPEATABLE only.
\* When such a word says again the word before it within the repeat window, the earlier
\* one is cut and the later one is left, unless the word after says it once more.  A
\* repeated word outside the list that is no filler, no noise tag and longer than
\* short_word_s is left whole, so I, I, went, went, there keeps its five words; and
\* detect_restarts with windows of two words emits no cut for it.
C13_RepeatableRepeatCut ==
    /\ FillersReturned =>
        /\ \A i \in 2 .. Len(df_words) :
              LET text == FillerText(df_words[i])
                  earlier == df_words[i - 1]
              IN SaysAgain(i) =>
                    /\ text \in COMMON_REPEATABLE =>
                          /\ IsCut(earlier)
                          /\ ~SaysAgain(i + 1) => IsUntouched(df_words[i])
                    /\ ( /\ text \notin COMMON_REPEATABLE
                         /\ ~FillerRegexMatch(text)
                         /\ ~StartsWithBracket(text)
                         /\ FloatLess(Secs(SHORT_WORD_S), SecsApart(earlier.end, earlier.start)) ) => IsUntouched(earlier)
        /\ df_words = IWentThere => df_ret.cuts = <<>>
    /\ (RestartsReturned /\ df_words = IWentThere /\ df_min_words = 2) => df_ret.cuts = <<>>

\* je, je, vais, vais, la: the first je is cut, the repeated vais is not
C13_Witness ==
    /\ FillersReturned
    /\ df_words = JeVaisLa
    /\ df_ret.cuts = << <<0, 8>> >>


-----------------------------------------------------------------------------
(* refine_segments_by_gaze: sampled frames without a face *)

\* C14 as stated: a sampled frame in which no face is detected neither opens a
\* sub-interval nor advances the time of the last valid sample.
C14_FacelessFrameIsInvalid ==
    [][ GazeSample("noface") =>
            /\ gz_active_start' = gz_active_start
            /\ gz_last_keep_t' = gz_last_keep_t ]_vars


-----------------------------------------------------------------------------
(* the disfluency detectors on empty and malformed transcripts *)

\* C15 as stated: no call of detect_fillers, detect_restarts or
\* detect_micro_repetition_cuts ends with an exception, whatever keys the word records
\* lack, and an empty word list gives an empty result.
C15_MalformedNeverRaises ==
    /\ df_pc # "raised"
    /\ (df_pc = "returned" /\ df_words = <<>>) => df_ret.cuts = <<>>


-----------------------------------------------------------------------------
(* apply_repetition_filter: the two returned lists *)

KeptIndices == { i \in 1 .. Len(rp_segments) : i \notin rp_drop }
NthKept(k) == CHOOSE i \in KeptIndices : Cardinality({ j \in KeptIndices : j < i }) = k - 1

\* C16: the two lists returned by apply_repetition_filter have the same length and are
\* the input segments and the input texts restricted to the same kept indices, in the
\* order of the input, each pair as it was given.
C16_SameKeptIndices ==
    rp_pc = "done" =>
        /\ Len(rp_kept_segments) = Cardinality(KeptIndices)
        /\ Len(rp_kept_texts) = Cardinality(KeptIndices)
        /\ \A k \in 1 .. Cardinality(KeptIndices) :
              /\ rp_kept_segments[k] = rp_segments[NthKept(k)]
              /\ rp_kept_texts[k] = rp_texts[NthKept(k)]

\* three segments, one of the first two dropped, the two others returned
C16_Witness ==
    /\ rp_pc = "done"
    /\ Len(rp_segments) = 3
    /\ rp_drop \in {{1}, {2}}
    /\ Len(rp_kept_segments) = 2
    /\ Len(rp_kept_texts) = 2


-----------------------------------------------------------------------------
(* build_segments_from_silences: the cut at a long silence *)

\* the silence between raw chunks i and i + 1 is a real one, as long as the cut threshold
LongSilence(i) ==
    /\ SilSpeech[i][2] < SilSpeech[i + 1][1]
    /\ SilSpeech[i + 1][1] - SilSpeech[i][2] >= sil_par.cut_silence_over_s

\* no returned segment holds both the end of chunk i and the start of chunk i + 1
Separated(i) ==
    \A k \in 1 .. Len(sil_out) :
        ~(Holds(sil_out[k], SilSpeech[i][2]) /\ Holds(sil_out[k], SilSpeech[i + 1][1]))

\* C17 as stated: whatever the pads, a silence at least cut_silence_over_s long between
\* two raw speech chunks separates the output.
C17_LongSilenceSeparates ==
    (sil_pc = "done" /\ sil_duration > 0) =>
        \A i \in 1 .. Len(SilSpeech) - 1 : LongSilence(i) => Separated(i)

\* the candidate segment closed at the cut of the silence after chunk i (lines 138 and
\* 142), and the one opened there (lines 140 and 143)
CutsUpTo(i) ==
    Cardinality({ j \in 1 .. i : ~Joins(SilSpeech[j + 1][1] - SilSpeech[j][2], sil_par) })

CandidateBefore(i) == SilCandidates[CutsUpTo(i)]
CandidateAfter(i) == SilCandidates[CutsUpTo(i) + 1]

\* lines 148-159: the cleanup keeps the candidate
Survives(candidate) == CleanLoop(<<candidate>>, sil_duration, sil_par) # <<>>

\* some returned segment holds both the end of chunk i and the start of chunk i + 1,
\* and with them the whole silence
Joined(i) ==
    \E k \in 1 .. Len(sil_out) :
        Holds(sil_out[k], SilSpeech[i][2]) /\ Holds(sil_out[k], SilSpeech[i + 1][1])

\* C17 amended: a silence at least cut_silence_over_s long separates the output when the
\* two pads together are shorter than the silence.  When they are not, the two padded
\* candidates touch or overlap, and the cleanup, which runs before the final merge,
\* drops each of them that is too short: when both are kept the final merge joins them
\* into one returned segment that holds the whole silence; when one is dropped, the
\* output is joined only if the candidate that is kept reaches across the silence by
\* its own pad.
C17_LongSilenceSeparatesUnlessPadsMeet ==
    (sil_pc = "done" /\ sil_duration > 0) =>
        \A i \in 1 .. Len(SilSpeech) - 1 :
            LET a_e == SilSpeech[i][2]
                b_s == SilSpeech[i + 1][1]
                gap_s == b_s - a_e
                meet == sil_par.pre_pad_s + sil_par.post_pad_s >= gap_s
                before == CandidateBefore(i)
                after == CandidateAfter(i)
            IN LongSilence(i) =>
                  /\ ~meet => Separated(i)
                  /\ meet => before[2] >= after[1]
                  /\ (meet /\ Survives(before) /\ Survives(after)) => Joined(i)
                  /\ (meet /\ ~(Survives(before) /\ Survives(after))) =>
                        (Joined(i) <=> \/ Survives(before) /\ Holds(before, b_s)
                                       \/ Survives(after) /\ Holds(after, a_e))

\* a silence of two ticks cut with pads of one tick each: the padded candidates touch
\* in the middle of the silence, the one before it is under min_segment_s and is
\* dropped, and the one after it is returned alone
C17_Witness ==
    /\ sil_pc = "done"
    /\ sil_par = SilPar(2, 1, 1, 1, 3, 1)
    /\ Len(SilSpeech) = 2
    /\ LongSilence(1)
    /\ SilSpeech[2][1] - SilSpeech[1][2] = 2
    /\ CandidateBefore(1)[2] = CandidateAfter(1)[1]
    /\ ~Survives(CandidateBefore(1))
    /\ Survives(CandidateAfter(1))
    /\ sil_out = <<CandidateAfter(1)>>
    /\ Separated(1)


-----------------------------------------------------------------------------
(* build_segments_from_silences: what the pads keep of a cut silence *)

\* candidate k ends at the cut of the silence after chunk i, candidate k + 1 starts there
CutAt(i, k) ==
    /\ k + 1 <= Len(SilCandidates)
    /\ SilSpeech[i][2] <= SilCandidates[k][2] /\ SilCandidates[k][2] <= SilSpeech[i + 1][1]
    /\ SilSpeech[i][2] <= SilCandidates[k + 1][1]
    /\ SilCandidates[k + 1][1] <= SilSpeech[i + 1][1]

\* the tick from x to x + 1 lies in a raw speech chunk
InChunk(x) ==
    \E i \in 1 .. Len(SilSpeech) : SilSpeech[i][1] <= x /\ x + 1 <= SilSpeech[i][2]

\* ... in a silence shorter than the cut threshold
InShortSilence(x) ==
    \E i \in 1 .. Len(SilSpeech) - 1 :
        /\ SilSpeech[i][2] <= x /\ x + 1 <= SilSpeech[i + 1][1]
        /\ SilSpeech[i + 1][1] - SilSpeech[i][2] < sil_par.cut_silence_over_s

\* ... within post_pad_s after a chunk or pre_pad_s before the next one, inside the silence
InPad(x) ==
    \E i \in 1 .. Len(SilSpeech) - 1 :
        /\ SilSpeech[i][2] <= x /\ x + 1 <= SilSpeech[i + 1][1]
        /\ \/ x + 1 <= SilSpeech[i][2] + sil_par.post_pad_s
           \/ SilSpeech[i + 1][1] - sil_par.pre_pad_s <= x

\* C18: at every cut the segment before the silence ends at most post_pad_s into it and
\* not past the start of the next chunk, and the segment after it starts at most
\* pre_pad_s before the next chunk and not before the end of the chunk before; so every
\* instant of a returned segment lies in a raw speech chunk, in a silence shorter than
\* the cut threshold, or within those pads.
C18_PadsBoundTheCut ==
    (sil_pc = "done" /\ sil_duration > 0) =>
        /\ \A i \in 1 .. Len(SilSpeech) - 1 :
              LongSilence(i) =>
                  \E k \in 1 .. Len(SilCandidates) :
                      /\ CutAt(i, k)
                      /\ SilCandidates[k][2] <= SilSpeech[i][2] + sil_par.post_pad_s
                      /\ SilCandidates[k + 1][1] >= SilSpeech[i + 1][1] - sil_par.pre_pad_s
        /\ \A k \in 1 .. Len(sil_out) :
              \A x \in sil_out[k][1] .. sil_out[k][2] - 1 :
                  InChunk(x) \/ InShortSilence(x) \/ InPad(x)

\* a silence of 0.2 s cut with pads of 0.1 s before and 0.05 s after the speech: the
\* returned segments keep the pads and leave the middle of the silence out
C18_Witness ==
    /\ sil_pc = "done"
    /\ sil_par.pre_pad_s = 2 /\ sil_par.post_pad_s = 1
    /\ Len(SilSpeech) = 2
    /\ LongSilence(1)
    /\ Len(sil_out) = 2
    /\ sil_out[1][2] = SilSpeech[1][2] + 1
    /\ sil_out[2][1] = SilSpeech[2][1] - 2
    /\ sil_out[1][2] < sil_out[2][1]


-----------------------------------------------------------------------------
(* vad_segments: the start trigger *)

\* the number of voiced frames among the frames with timestamps lo .. hi
VoicedCount(lo, hi) == Cardinality({ t \in lo .. hi : vad_frames[t + 1] })
UnvoicedCount(lo, hi) == Cardinality({ t \in lo .. hi : ~vad_frames[t + 1] })

\* the earliest of the last N frames of the audio, the frame being read included
EarliestOfLastN == Max(0, vad_i - vad_par.num_padding + 1)

\* the earliest frame held in the window once the frame being read is appended
EarliestHeld == vad_i - Min(Len(vad_ring), vad_par.num_padding - 1)

\* the window holds the frames read just before the one being read, in order
RingHoldsLatestFrames ==
    vad_pc = "loop" =>
        /\ Len(vad_ring) <= vad_par.num_padding
        /\ Len(vad_ring) <= vad_i
        /\ \A k \in 1 .. Len(vad_ring) :
              LET t == vad_i - Len(vad_ring) + k - 1
              IN vad_ring[k] = <<t, vad_frames[t + 1]>>

\* C19 as stated: while not triggered, a segment starts at a frame exactly when more
\* than 90 % of the N frames of the window, taken as the last N frames of the audio,
\* are voiced, and its start is the timestamp of the earliest of them.
C19_StartsOnLastNFrames ==
    [][ (VadFrame /\ ~vad_triggered /\ vad_par.num_padding > 0) =>
            /\ vad_triggered' <=>
                   10 * VoicedCount(EarliestOfLastN, vad_i) > 9 * vad_par.num_padding
            /\ vad_triggered' => vad_start_t' = EarliestOfLastN ]_vars

\* C19 amended: the window is emptied at every start and every end of a segment, so it
\* holds the frames read since then, the last N at most.  While not triggered, a segment
\* starts at a frame exactly when the voiced frames held in the window are more than
\* 90 % of N, and its start is the timestamp of the earliest frame held.
C19_StartsOnHeldWindow ==
    /\ []RingHoldsLatestFrames
    /\ [][ (VadFrame /\ ~vad_triggered /\ vad_par.num_padding > 0) =>
               /\ vad_triggered' <=>
                      10 * VoicedCount(EarliestHeld, vad_i) > 9 * vad_par.num_padding
               /\ vad_triggered' => vad_start_t' = EarliestHeld /\ vad_ring' = <<>>
               /\ ~vad_triggered' =>
                      Len(vad_ring') = Min(Len(vad_ring) + 1, vad_par.num_padding) ]_vars

\* the second segment of the flicker example starts at the frame after the end trigger,
\* one frame later than 10 of the last 11 frames are voiced
C19_Witness ==
    /\ vad_pc = "loop"
    /\ vad_frames = VadFlicker
    /\ vad_triggered
    /\ vad_voiced = << <<0, 21>> >>
    /\ vad_start_t = 21
    /\ vad_i = 31


-----------------------------------------------------------------------------
(* vad_segments: the end trigger and the final flush *)

\* the audio ended while a segment was open (the return leaves triggered as it was)
EndedWhileTriggered == vad_pc = "done" /\ vad_triggered

\* the open segment, closed at the end of the last frame
ClosedAtEnd == <<vad_start_t, Len(vad_frames)>>

IsReturned(seg) ==
    \E k \in 1 .. Len(vad_out) : vad_out[k][1] <= seg[1] /\ seg[2] <= vad_out[k][2]

\* C20 as stated: once triggered, the open segment ends at a frame exactly when more
\* than 90 % of the window is unvoiced, and stays open otherwise; when the audio ends
\* while triggered, the open segment is closed at the end of the last frame and is part
\* of the result, so no triggered speech is lost.
C20_EndsOnWindowNothingLost ==
    /\ [](EndedWhileTriggered => Last(vad_voiced) = ClosedAtEnd /\ IsReturned(ClosedAtEnd))
    /\ [][ (VadFrame /\ vad_triggered /\ vad_par.num_padding > 0) =>
               /\ ~vad_triggered' <=>
                      10 * UnvoicedCount(EarliestHeld, vad_i) > 9 * vad_par.num_padding
               /\ ~vad_triggered' =>
                      vad_voiced' = Append(vad_voiced, <<vad_start_t, vad_i + 1>>)
               /\ vad_triggered' => vad_voiced' = vad_voiced /\ vad_start_t' = vad_start_t ]_vars

\* C20 amended: as stated, except that the segment closed at the end of the audio goes
\* through the post-processing like every other one: it is part of the result when its
\* length, the difference of its two frame times as computed in floating point, is at
\* least min_segment_ms, and removed when it is shorter.
C20_EndsOnWindowFlushKeptIfLong ==
    /\ [](EndedWhileTriggered =>
              /\ Last(vad_voiced) = ClosedAtEnd
              /\ IsReturned(ClosedAtEnd) <=> LongEnough(vad_start_t, Len(vad_frames), vad_par.min_len))
    /\ [][ (VadFrame /\ vad_triggered /\ vad_par.num_padding > 0) =>
               /\ ~vad_triggered' <=>
                      10 * UnvoicedCount(EarliestHeld, vad_i) > 9 * vad_par.num_padding
               /\ ~vad_triggered' =>
                      vad_voiced' = Append(vad_voiced, <<vad_start_t, vad_i + 1>>)
               /\ vad_triggered' => vad_voiced' = vad_voiced /\ vad_start_t' = vad_start_t ]_vars

\* a first segment that went on over an unvoiced frame and ended at a later pause, then a
\* second one still open at the end of the audio and returned up to the last frame
C20_Witness ==
    /\ EndedWhileTriggered
    /\ Len(vad_voiced) = 2
    /\ \E t \in vad_voiced[1][1] .. vad_voiced[1][2] - 2 : ~vad_frames[t + 1] /\ vad_frames[t + 2]
    /\ vad_out # <<>>
    /\ Last(vad_out)[2] = Len(vad_frames)


-----------------------------------------------------------------------------
(* refine_segments_by_gaze: the reading runs inside one candidate *)

SubIntervalOpen == gz_active_start # NoneVal /\ gz_last_keep_t # NoneVal

\* C21: inside a candidate with a sub-interval open, a frame judged as reading that
\* comes more than max_invalid_gap_s after the last kept frame closes the sub-interval
\* at the time of that last kept frame, emitting it when it is long enough; a reading
\* frame within max_invalid_gap_s leaves it open, and the next kept frame continues it;
\* with no sub-interval open, a kept frame with a gaze opens one at its own time.
C21_LongReadingRunCloses ==
    [][ /\ (GazeSample("reading") /\ SubIntervalOpen) =>
              IF gz_t' - gz_last_keep_t[1] > gz_cfg.max_invalid_gap_s
              THEN /\ gz_active_start' = NoneVal
                   /\ gz_last_keep_t' = NoneVal
                   /\ gz_refined' =
                        IF gz_last_keep_t[1] - gz_active_start[1] >= gz_cfg.min_segment_duration_s
                        THEN Append(gz_refined, <<gz_active_start[1], gz_last_keep_t[1]>>)
                        ELSE gz_refined
              ELSE UNCHANGED <<gz_active_start, gz_last_keep_t, gz_refined>>
        /\ (GazeSample("steady") /\ SubIntervalOpen) =>
              /\ gz_active_start' = gz_active_start
              /\ gz_last_keep_t' = Some(gz_t')
              /\ gz_refined' = gz_refined
        /\ (GazeSample("steady") /\ gz_active_start = NoneVal) =>
              /\ gz_active_start' = Some(gz_t')
              /\ gz_last_keep_t' = Some(gz_t') ]_vars

\* in the first candidate, a sub-interval was closed and emitted at a reading run and a
\* later kept frame opened the next one
C21_Witness ==
    /\ gz_pc = "while"
    /\ gz_idx = 1
    /\ Len(gz_refined) = 1
    /\ SubIntervalOpen
    /\ gz_active_start[1] > gz_refined[1][2] + gz_cfg.max_invalid_gap_s


-----------------------------------------------------------------------------
(* refine_segments_by_gaze: what an emitted sub-interval holds *)

\* C22 as stated: every emitted sub-interval contains a run of consecutive kept
\* samples, with no reading sample between them, spanning at least
\* min_segment_duration_s.
C22_EmittedHeldContinuously ==
    /\ Len(gz_runs) = Len(gz_refined)
    /\ \A k \in 1 .. Len(gz_runs) : gz_runs[k] >= gz_cfg.min_segment_duration_s

\* C22 amended: every emitted sub-interval spans at least min_segment_duration_s from
\* its first kept sample to its last one; reading samples may lie between them (runs of
\* at most max_invalid_gap_s), so the longest run of consecutive kept samples inside it
\* is at most its span and may be shorter than min_segment_duration_s.
C22_EmittedSpansMinimum ==
    /\ Len(gz_runs) = Len(gz_refined)
    /\ \A k \in 1 .. Len(gz_refined) :
          /\ gz_refined[k][2] - gz_refined[k][1] >= gz_cfg.min_segment_duration_s
          /\ 0 <= gz_runs[k] /\ gz_runs[k] <= gz_refined[k][2] - gz_refined[k][1]

\* a candidate of two sampling periods under a minimum duration of two periods, a gap
\* limit of one period and a window of two samples: its three samples are kept, judged
\* as reading and kept, and the sub-interval from the first to the third is emitted
\* although no two consecutive samples were kept
C22_Witness ==
    /\ gz_pc = "done"
    /\ gz_cfg = GazeCfg(1, 2, 0, 2, 2)
    /\ gz_segments = << <<0, 2>> >>
    /\ gz_buflen = 2
    /\ gz_refined = << <<1, 3>> >>
    /\ gz_refined[1][2] - gz_refined[1][1] >= gz_cfg.min_segment_duration_s
    /\ gz_runs = <<0>>
    /\ gz_runs[1] < gz_cfg.min_segment_duration_s


-----------------------------------------------------------------------------
(* detect_restarts: the windows it examines *)

\* the words are a phrase of min_words words said twice, the second time at once
PhraseSaidTwice ==
    /\ Len(df_words) = 2 * df_min_words
    /\ AllHave(df_words, {"word", "start", "end"})
    /\ \A k \in 1 .. df_min_words : Lower(df_words[k].word) = Lower(df_words[df_min_words + k].word)
    /\ FloatLeq(SecsApart(df_words[df_min_words + 1].start, df_words[df_min_words].end), Secs(RESTART_MAX_GAP_S))

\* C23 as stated: the windows that start at L - K are examined too, so a phrase of K
\* words said twice (L = 2K) yields one cut, from the start of the first word to the
\* start of word K + 1.
C23_PhraseSaidTwiceIsCut ==
    (RestartsReturned /\ PhraseSaidTwice) =>
        df_ret.cuts = << <<df_words[1].start, df_words[df_min_words + 1].start>> >>


-----------------------------------------------------------------------------
(* detect_restarts: the scan after a cut *)

WindowText(j) == JoinBlank(LowerTokens(Window(df_words, j, df_min_words)))

\* window k (counted from 0) is one the look-ahead from window j examines and matches
MatchesLater(j, k) ==
    /\ j + df_min_words <= k /\ k < Len(df_words) - df_min_words
    /\ FloatLeq(SecsApart(df_words[k + 1].start, df_words[j + df_min_words].end), Secs(RESTART_MAX_GAP_S))
    /\ SimilarityAtLeast(WindowText(j), WindowText(k), RESTART_SIM_THRESHOLD)

\* C24 as stated: after the cut for a window j that matched window i, the scan goes on
\* with window j as the next first attempt, so when a later window k matches window j
\* a second cut starts where the first one ends.
C24_ScanResumesAtMatch ==
    (RestartsReturned /\ AllHave(df_words, {"word", "start", "end"})) =>
        \A c \in 1 .. Len(df_ret.cuts) :
            \A j \in 0 .. Len(df_words) - 1 :
                ( /\ df_words[j + 1].start = df_ret.cuts[c][2]
                  /\ \E k \in 0 .. Len(df_words) - 1 : MatchesLater(j, k) )
                => \E d \in 1 .. Len(df_ret.cuts) : df_ret.cuts[d][1] = df_ret.cuts[c][2]


-----------------------------------------------------------------------------
(* detect_fillers, detect_restarts: the returned cut lists *)

\* the cuts of the rules of detect_fillers, before merge_intervals
RawFillerCuts == FillerLoop(df_words, 1, <<>>).cuts

\* sorted by start, no two spans overlapping
CutsSortedDisjoint(cuts) ==
    \A k \in 1 .. Len(cuts) - 1 : cuts[k][1] <= cuts[k + 1][1] /\ cuts[k][2] <= cuts[k + 1][1]

\* C25: for time-ordered words the list returned by detect_fillers and the list returned
\* by detect_restarts are each sorted by start with no two spans overlapping, and every
\* cut made by a rule of detect_fillers is covered by a span of the returned list (no
\* two spans of which are within the tolerance of the merge).
C25_CutListsSortedDisjoint ==
    /\ FillersReturned =>
          /\ CutsSortedDisjoint(df_ret.cuts)
          /\ \A k \in 1 .. Len(df_ret.cuts) - 1 :
                ~WithinTolerance(df_ret.cuts[k + 1][1], df_ret.cuts[k][2])
          /\ LET raw == RawFillerCuts
             IN \A r \in 1 .. Len(raw) :
                    \E k \in 1 .. Len(df_ret.cuts) :
                        df_ret.cuts[k][1] <= raw[r][1] /\ raw[r][2] <= df_ret.cuts[k][2]
    /\ RestartsReturned => CutsSortedDisjoint(df_ret.cuts)

\* a short je before a pause, said again: two rules cut the same word and the returned
\* list holds the span once
C25_Witness ==
    /\ FillersReturned
    /\ Len(RawFillerCuts) = 2
    /\ RawFillerCuts[1] = RawFillerCuts[2]
    /\ df_ret.cuts = << RawFillerCuts[1] >>

-----------------------------------------------------------------------------
(* detect_repetition_segments: the A-B-A rule *)

\* the drop set after the iterations for segments 1 .. k
RECURSIVE DropUpTo(_)
DropUpTo(k) ==
    IF k = 0 THEN {}
    ELSE RepetitionStep(k, DropUpTo(k - 1), rp_segments, NormalizeAll(rp_texts), rp_par)

\* segment i reaches the A-B-A test: not dropped by containment, unlike segment i - 1
\* and like segment i - 2
ReachesABA(i, norm) ==
    /\ i >= 3
    /\ ~Contained(i, rp_segments, norm, rp_par)
    /\ i \notin DropUpTo(i - 1)
    /\ norm[i] # ""
    /\ ~SimilarityAtLeast(norm[i], norm[i - 1], rp_par.min_sim)
    /\ SimilarityAtLeast(norm[i], norm[i - 2], rp_par.min_sim)

IsShort(i) == FloatLess(Duration(rp_segments[i]), Float(ONE_SECOND, ONE_SECOND))
HasFewWords(i, norm) == CountLong(Words(norm[i])) < 4

\* C26 as stated: at the A-B-A test segment i is dropped when segment i - 1 is both
\* short and low in word count, and otherwise the iteration for i drops nothing.
C26_DroppedWhenMiddleShortAndFew ==
    rp_pc = "done" =>
        LET norm == NormalizeAll(rp_texts)
        IN \A i \in 1 .. Len(rp_segments) :
              ReachesABA(i, norm) =>
                 IF IsShort(i - 1) /\ HasFewWords(i - 1, norm)
                 THEN i \in DropUpTo(i)
                 ELSE DropUpTo(i) = DropUpTo(i - 1)

\* C26: for a segment i that reaches the A-B-A test, segment i is dropped when
\* segment i - 1 is short in duration or low in word count; when segment i - 1 is
\* neither, the iteration for i drops nothing, so that neither i nor i - 2 is
\* dropped and the windowed lookback is not applied to i.
C26_DroppedWhenMiddleShortOrFew ==
    rp_pc = "done" =>
        LET norm == NormalizeAll(rp_texts)
        IN \A i \in 1 .. Len(rp_segments) :
              ReachesABA(i, norm) =>
                 IF IsShort(i - 1) \/ HasFewWords(i - 1, norm)
                 THEN DropUpTo(i) = DropUpTo(i - 1) \cup {i}
                 ELSE DropUpTo(i) = DropUpTo(i - 1)

\* C26 witness: 'on sort', a long aside of three words, 'On sort !': the third
\* segment is dropped although the aside lasts 1.2 s
C26_Witness ==
    /\ rp_pc = "done"
    /\ Len(rp_segments) = 3
    /\ ReachesABA(3, NormalizeAll(rp_texts))
    /\ rp_texts[2] = "on y va"
    /\ ~IsShort(2)
    /\ rp_drop = {3}

-----------------------------------------------------------------------------
(* detect_repetition_segments: the windowed lookback *)

\* segment i reaches the windowed lookback
ReachesLookback(i, norm) ==
    /\ ~Contained(i, rp_segments, norm, rp_par)
    /\ i \notin DropUpTo(i - 1)
    /\ norm[i] # ""
    /\ ~ReachesABA(i, norm)

\* the earlier segments of the window that are still kept and similar to segment i
SimilarKept(i, norm) ==
    { j \in Max(1, i - rp_par.lookback) .. i - 1 :
         /\ j \notin DropUpTo(i - 1)
         /\ SimilarityAtLeast(norm[i], norm[j], rp_par.min_sim) }

\* C27: segment i is compared with the still-kept segments among the lookback
\* segments before it; at the first similar one the shorter of the pair is dropped,
\* the earlier one on equal durations, unless the segment that would remain is shorter
\* than min_keep_s; the iteration for i drops at most that one segment.
C27_LookbackDropsShorterOfFirstPair ==
    rp_pc = "done" =>
        LET norm == NormalizeAll(rp_texts)
        IN \A i \in 1 .. Len(rp_segments) :
              ReachesLookback(i, norm) =>
                 LET before == DropUpTo(i - 1)
                     similar == SimilarKept(i, norm)
                 IN IF similar = {} THEN DropUpTo(i) = before
                    ELSE LET j == CHOOSE m \in similar : \A o \in similar : m <= o
                             loser == IF FloatLess(Duration(rp_segments[i]), Duration(rp_segments[j]))
                                      THEN i ELSE j
                             stays == IF loser = i THEN j ELSE i
                         IN /\ DropUpTo(i) = IF ReachesMinKeep(Duration(rp_segments[stays]), rp_par.min_keep_s)
                                             THEN before \cup {loser} ELSE before
                            /\ Cardinality(DropUpTo(i) \ before) <= 1

\* C27 witness: 'on sort' three times, 0.6 s, 0.6 s and 0.3 s, lookback 3: the second
\* take ties with the first and drops it, the third skips the dropped first and,
\* being the shorter of the pair it forms with the second, is dropped
C27_Witness ==
    /\ rp_pc = "done"
    /\ rp_texts = <<"on sort", "on sort", "on sort">>
    /\ rp_segments = <<<<0, 60>>, <<60, 120>>, <<120, 150>>>>
    /\ Duration(rp_segments[1]) = Duration(rp_segments[2])
    /\ rp_par = RepPar(3, 78, 45)
    /\ ReachesLookback(2, NormalizeAll(rp_texts))
    /\ ReachesLookback(3, NormalizeAll(rp_texts))
    /\ SimilarKept(3, NormalizeAll(rp_texts)) = {2}
    /\ rp_drop = {1, 3}

-----------------------------------------------------------------------------
(* build_punct_segments_from_words: hard punctuation *)

\* C28: a word ending in '.', '!' or '?' is the last word of its segment: no emitted
\* segment holds such a word anywhere but in last position, also when the word opens
\* a segment or follows a gap larger than max_gap_s.
C28_HardPunctuationEndsSegment ==
    pt_pc = "done" =>
        \A k \in 1 .. Len(pt_tokens) :
            \A m \in 1 .. Len(pt_tokens[k]) - 1 : ~is_hard_punct(pt_tokens[k][m])

-----------------------------------------------------------------------------
(* detect_repetition_segments: what a drop is made in favour of *)

\* segment i is dropped by the iteration for i in favour of segment o, or segment o
\* is dropped by it in favour of segment i
DroppedInFavourOf(i, norm) ==
    IF Contained(i, rp_segments, norm, rp_par) THEN { <<i, i + 1>> }
    ELSE IF ReachesABA(i, norm)
    THEN (IF i \in DropUpTo(i) THEN { <<i, i - 2>> } ELSE {})
    ELSE IF ReachesLookback(i, norm) /\ SimilarKept(i, norm) # {}
    THEN LET similar == SimilarKept(i, norm)
             j == CHOOSE m \in similar : \A o \in similar : m <= o
             new == DropUpTo(i) \ DropUpTo(i - 1)
         IN (IF i \in new THEN { <<i, j>> } ELSE {})
            \cup (IF j \in new THEN { <<j, i>> } ELSE {})
    ELSE {}

\* C29: a segment in favour of which another one is dropped (the successor under
\* containment, segment i - 2 under the A-B-A rule, the other member of the pair
\* under the lookback) is not in the final drop set, and a non-empty input never
\* gives an empty output.
C29_DropsNeverChain ==
    rp_pc = "done" =>
        LET norm == NormalizeAll(rp_texts)
        IN /\ \A i \in 1 .. Len(rp_segments) :
                 \A pair \in DroppedInFavourOf(i, norm) : pair[2] \notin rp_drop
           /\ rp_segments # <<>> => rp_kept_segments # <<>>

-----------------------------------------------------------------------------
(* process_project: the lists handed to concat_segments_single_pass *)

\* the step has been started
Started(stage) == \E k \in 1 .. Len(pp_log) : pp_log[k] = stage

\* C30: on every path of process_project the rough concatenation and the clean
\* concatenation are started only with a non-empty segment list, and the ValueError
\* of concat_segments_single_pass for an empty list is never raised.
C30_ConcatNeverGivenEmpty ==
    /\ ~(pp_exception = "ValueError" /\ Last(pp_log) \in {"concat_rough", "concat_clean"})
    /\ pp_pc = "concat_rough" \/ Started("concat_rough") => pp_segments_src # <<>>
    /\ pp_pc = "concat_clean" \/ Started("concat_clean") => pp_segments_clean # <<>>

\* C30 witness: both concatenations have run, the clean one on the segments left by
\* a repetition filter that dropped some of them
C30_Witness ==
    /\ Started("concat_rough")
    /\ Started("concat_clean")
    /\ pp_exception = "none"
    /\ pp_segments_clean # <<>>
    /\ Len(pp_segments_clean) < Len(pp_segments_concat)

====
